---- MODULE Spec2Model ----
(***************************************************************************)
(* A model of the omtk rigging toolkit: the Rig orchestrator               *)
(* (omtk/classRig.py), the avar modules (omtk/modules/rigFaceAvar.py) and  *)
(* the spine module (omtk/rigDpSpine.py), over an abstract host scene made *)
(* of nodes, attributes and connections.                                   *)
(***************************************************************************)
EXTENDS Integers, Sequences, FiniteSets, TLC

VARIABLES
    children,   \* Rig.children: [none |-> BOOLEAN, list |-> Seq(module)]
    rig,        \* the seven scene handles of the Rig object
    mods,       \* the Module objects: module id -> its fields
    nodes,      \* the host scene: live node id -> [type, parent]
    attrs,      \* user attributes of the scene: plug -> stored value
    conns,      \* connections of the scene: set of <<source plug, destination plug>>
    log,        \* what the last Rig call did, in order
    lastOp,     \* the last operation called
    lastRet,    \* what it returned ("True", "False", "None") or raised
    spine,      \* the DpSpine object: its chain and its five control handles
    fol,        \* a built AvarFollicle: its avars and what its network evaluates to
    ik,         \* a built SoftIkNode: its input attributes and its two outputs
    legacy,     \* the legacy IK part: its chain, its control's distance, its stretch
    registry,   \* the module registry: the instances made, what create() last gave
    ser,        \* a scene of serialized network nodes, for the maintenance script
    shape,      \* the control shape libCtrlShapes last made
    swivel,     \* the IK swivel control last built
    surface,    \* the surface rig create_surface last made
    mul         \* an AvarFollicle module's multipliers: stored values and attributes

\* The library functions and small objects that are exercised on their own.
tools == <<shape, swivel, surface, mul>>

\* The components that are exercised on their own.
apart == <<ik, legacy, registry, ser, tools>>

vars == <<children, rig, mods, nodes, attrs, conns, log, lastOp, lastRet,
         spine, fol, apart>>

(***************************************************************************)
(* Bounds of the model.                                                    *)
(***************************************************************************)
MaxChildren == 2     \* longest Rig.children the model builds
MaxNodes == 12       \* no build() is started in a scene of more nodes than this
MaxJoints == 4       \* joints a spine's input list is drawn from
MaxSpineNodes == 8   \* no spine build() is started in a scene of more nodes than this

\* Python's None, for a handle (node ids start at 1).
NoneVal == 0

\* The module objects: an avar (AvarSimple) and a plain module that can be
\* added to the rig, and the DpSpine object.  The plain module has no
\* globalScale attribute to expose.
Modules == {"avar", "module"}
SpineModule == "spine"

ModuleKind(m) ==
    CASE m = "avar" -> "Avar"
      [] m = "spine" -> "DpSpine"
      [] OTHER -> "Module"
ExposesScale(m) == m # "module"

\* The values the animator gives the master scale.
ScaleValues == {1, 3}

\* The 9 avar attribute names, in the order add_avars creates them.
AvarNames ==
    <<"avar_ud", "avar_lr", "avar_fb", "avar_yw", "avar_pt", "avar_rl",
      "avar_scale_lr", "avar_scale_ud", "avar_scale_fb">>

AvarDefault(name) ==
    IF name \in {"avar_scale_lr", "avar_scale_ud", "avar_scale_fb"} THEN 1 ELSE 0

(***************************************************************************)
(* The host scene.  A world w is the record of every variable a handler    *)
(* reads or writes, so that a handler is a composition of steps.           *)
(***************************************************************************)
\* The id a new node gets: the smallest one no live node has.  (No handle
\* outlives its node: every handler clears the handles of what it deletes.)
FreshId(ns) ==
    CHOOSE i \in 1..(Cardinality(DOMAIN ns) + 1) :
        i \notin DOMAIN ns /\ \A j \in 1..(i - 1) : j \in DOMAIN ns

World ==
    [children |-> children, rig |-> rig, mods |-> mods, nodes |-> nodes,
     nextId |-> FreshId(nodes), attrs |-> attrs, conns |-> conns, log |-> <<>>,
     spine |-> spine, ret |-> "None"]

Plug(n, a) == <<n, a>>

Alive(w, n) == n \in DOMAIN w.nodes

\* libPymel.is_valid_PyNode: the handle is set and its node still exists.
IsValidPyNode(w, n) == n # NoneVal /\ Alive(w, n)

NodesOfType(w, t) == {n \in DOMAIN w.nodes : w.nodes[n].type = t}

ChildrenOf(w, n) == {c \in DOMAIN w.nodes : w.nodes[c].parent = n}

Logged(w, ev, arg) == [w EXCEPT !.log = Append(@, [ev |-> ev, arg |-> arg])]

\* createNode: a new node, with a fresh id, under parent p (NoneVal: the world).
CreateNode(w, t, p) ==
    LET ns == (w.nextId :> [type |-> t, parent |-> p]) @@ w.nodes
    IN [w EXCEPT !.nodes = ns, !.nextId = FreshId(ns)]

SetParent(w, n, p) ==
    IF Alive(w, n) /\ n # p
    THEN [w EXCEPT !.nodes = [@ EXCEPT ![n].parent = p]]
    ELSE w

RECURSIVE Closure(_, _)
Closure(w, S) ==
    LET T == S \cup {c \in DOMAIN w.nodes : w.nodes[c].parent \in S}
    IN IF T = S THEN S ELSE Closure(w, T)

\* pymel.delete: the nodes, everything parented under them, their attributes
\* and every connection from or to them.
DeleteNodes(w, S) ==
    LET D == Closure(w, S \cap DOMAIN w.nodes)
        keep == DOMAIN w.nodes \ D
    IN [w EXCEPT
          !.nodes = [n \in keep |-> w.nodes[n]],
          !.nextId = FreshId([n \in keep |-> w.nodes[n]]),
          !.attrs = [p \in {q \in DOMAIN w.attrs : q[1] \in keep} |-> w.attrs[p]],
          !.conns = {c \in w.conns : c[1][1] \in keep /\ c[2][1] \in keep}]

\* addAttr: a new user attribute with its default value (an existing one is kept).
AddAttr(w, n, a, v) ==
    [w EXCEPT !.attrs = @ @@ (Plug(n, a) :> v)]

HasAttr(w, n, a) == Plug(n, a) \in DOMAIN w.attrs

Inputs(w, p) == {c[1] : c \in {d \in w.conns : d[2] = p}}
Outputs(w, p) == {c[2] : c \in {d \in w.conns : d[1] = p}}

\* connectAttr(src, dst): refused by the host when dst already has an input.
ConnectAttr(w, src, dst) ==
    IF Inputs(w, dst) = {} THEN [w EXCEPT !.conns = @ \cup {<<src, dst>>}] ELSE w

\* Faulty variant: the connection made without force=True.
ConnectAttrNoForce(w, src, dst) == ConnectAttr(w, src, dst)

\* connectAttr(src, dst, force=True): any previous input of dst is replaced.
ConnectAttrForce(w, src, dst) ==
    [w EXCEPT !.conns = {c \in @ : c[2] # dst} \cup {<<src, dst>>}]

DisconnectAttr(w, src, dst) == [w EXCEPT !.conns = @ \ {<<src, dst>>}]

\* The value a plug reads: its input's value when it has one, else its own
\* stored value (1 for a built-in scale channel).
RECURSIVE ReadAttr(_, _)
ReadAttr(w, p) ==
    IF Inputs(w, p) # {}
    THEN ReadAttr(w, CHOOSE s \in Inputs(w, p) : TRUE)
    ELSE IF p \in DOMAIN w.attrs THEN w.attrs[p] ELSE 1

(***************************************************************************)
(* Module: the base class of every rig module.  Its file (classModule) is  *)
(* not part of the sources; it is modelled from its documented contract:   *)
(* build() creates the module's animation and rig groups unless the module *)
(* is already built, unbuild() deletes them, is_built() is true while one  *)
(* of the two handles resolves to a live node.                             *)
(***************************************************************************)
ModuleIsBuilt(w, m) ==
    \/ IsValidPyNode(w, w.mods[m].grp_anm)
    \/ IsValidPyNode(w, w.mods[m].grp_rig)

ModuleBuild(w, m) ==
    IF ModuleIsBuilt(w, m)
    THEN [w EXCEPT !.ret = "False"]
    ELSE LET anm == w.nextId
             w0 == CreateNode(w, "mod_anm", NoneVal)
             rigGrp == w0.nextId
             w1 == CreateNode(w0, "mod_rig", NoneVal)
             w2 == IF w.mods[m].exposesScale
                   THEN AddAttr(w1, rigGrp, "globalScale", 1)
                   ELSE w1
         IN [w2 EXCEPT !.mods[m].grp_anm = anm,
                       !.mods[m].grp_rig = rigGrp,
                       !.mods[m].globalScale = w.mods[m].exposesScale,
                       !.ret = "True"]

ModuleUnbuild(w, m) ==
    LET w1 == DeleteNodes(w, {w.mods[m].grp_anm, w.mods[m].grp_rig} \ {NoneVal})
    IN [w1 EXCEPT !.mods[m].grp_anm = NoneVal,
                  !.mods[m].grp_rig = NoneVal,
                  !.mods[m].globalScale = FALSE,
                  !.ret = "None"]

(***************************************************************************)
(* AbstractAvar and AvarSimple (omtk/modules/rigFaceAvar.py).              *)
(***************************************************************************)
\* add_avars: the 9 avar attributes on the holder; the module keeps handles.
RECURSIVE AddAvarsFrom(_, _, _)
AddAvarsFrom(w, holder, i) ==
    IF i > Len(AvarNames) THEN w
    ELSE AddAvarsFrom(AddAttr(w, holder, AvarNames[i], AvarDefault(AvarNames[i])),
                      holder, i + 1)

add_avars(w, m, holder) ==
    [AddAvarsFrom(w, holder, 1) EXCEPT !.mods[m].attr_set = TRUE]

init_avars(w, m) == [w EXCEPT !.mods[m].attr_set = FALSE]

\* The plugs of a node that receive a connection.
DrivenPlugsOf(w, n) == {c[2] : c \in {d \in w.conns : d[2][1] = n}}

\* Faulty variant: only a curve connected directly counts.
InputIsAnimCurve(w, p) ==
    \E src \in Inputs(w, p) : w.nodes[src[1]].type = "animCurve"

\* attr_have_animcurve_input: the attribute's input is an animation curve, or
\* a blendWeighted node one of whose inputs is (recursively).
RECURSIVE attr_have_animcurve_input(_, _)
attr_have_animcurve_input(w, p) ==
    IF Inputs(w, p) = {} THEN FALSE
    ELSE LET src == CHOOSE s \in Inputs(w, p) : TRUE
             t == w.nodes[src[1]].type
         IN CASE t = "animCurve" -> TRUE
              [] t = "blendWeighted" ->
                    \E q \in DrivenPlugsOf(w, src[1]) : attr_have_animcurve_input(w, q)
              [] OTHER -> FALSE

\* Move every connection leaving src so that it leaves dst.
MoveOutputs(w, src, dst) ==
    [w EXCEPT !.conns = {c \in @ : c[1] # src}
                        \cup {<<dst, o>> : o \in Outputs(w, src)}]

\* Move the connection entering src so that it enters dst.
MoveInput(w, src, dst) ==
    [w EXCEPT !.conns = {c \in @ : c[2] # src}
                        \cup {<<i, dst>> : i \in Inputs(w, src)}]

\* The body of the loop of hold_avars for one attribute name.
HoldOneAvar(w, rigGrp, network, name) ==
    IF ~HasAttr(w, rigGrp, name) THEN w
    ELSE LET src == Plug(rigGrp, name)
             dst == Plug(network, name)
             w1 == IF attr_have_animcurve_input(w, src)
                   THEN MoveInput(w, src, dst)
                   ELSE w
         IN MoveOutputs(w1, src, dst)

RECURSIVE HoldFrom(_, _, _, _)
HoldFrom(w, rigGrp, network, i) ==
    IF i > Len(AvarNames) THEN w
    ELSE HoldFrom(HoldOneAvar(w, rigGrp, network, AvarNames[i]), rigGrp, network, i + 1)

hold_avars(w, m) ==
    IF ~IsValidPyNode(w, w.mods[m].grp_rig) THEN w
    ELSE LET network == w.nextId
             w1 == CreateNode(w, "avarBackup", NoneVal)
             w2 == [w1 EXCEPT !.mods[m].avar_network = network]
             w3 == add_avars(w2, m, network)
         IN HoldFrom(w3, w.mods[m].grp_rig, network, 1)

\* libAttr.transfer_connections (not in the sources; from its documented
\* contract): the input and the outputs of src are moved to dst.
transfer_connections(w, src, dst) == MoveOutputs(MoveInput(w, src, dst), src, dst)

FetchOneAvar(w, network, rigGrp, name) ==
    IF ~HasAttr(w, rigGrp, name) THEN w
    ELSE transfer_connections(w, Plug(network, name), Plug(rigGrp, name))

RECURSIVE FetchFrom(_, _, _, _)
FetchFrom(w, network, rigGrp, i) ==
    IF i > Len(AvarNames) THEN w
    ELSE FetchFrom(FetchOneAvar(w, network, rigGrp, AvarNames[i]), network, rigGrp, i + 1)

\* Faulty variant: the connections are fetched but the backup node is kept.
FetchKeepsBackup(w, m) ==
    IF ~IsValidPyNode(w, w.mods[m].avar_network) THEN w
    ELSE LET network == w.mods[m].avar_network
             held == {c \in w.conns : c[1][1] = network \/ c[2][1] = network}
             w1 == FetchFrom(w, network, w.mods[m].grp_rig, 1)
             w3 == [w1 EXCEPT !.mods[m].avar_network = NoneVal]
         IN Logged(w3, "fetch_avars", Cardinality(held))

fetch_avars(w, m) ==
    IF ~IsValidPyNode(w, w.mods[m].avar_network) THEN w
    ELSE LET network == w.mods[m].avar_network
             held == {c \in w.conns : c[1][1] = network \/ c[2][1] = network}
             w1 == FetchFrom(w, network, w.mods[m].grp_rig, 1)
             w2 == DeleteNodes(w1, {network})
             w3 == [w2 EXCEPT !.mods[m].avar_network = NoneVal]
         IN Logged(w3, "fetch_avars", Cardinality(held))

\* AbstractAvar.build
AbstractAvarBuild(w, m) ==
    LET w1 == ModuleBuild(w, m)
        w2 == add_avars(w1, m, w1.mods[m].grp_rig)
    IN fetch_avars(w2, m)

\* AvarSimple.build_stack: the 'pos' layer, driven by the 6 transform avars.
AvarSimpleBuildStack(w, m, stack) ==
    LET g == w.mods[m].grp_rig
        w1 == ConnectAttr(w, Plug(g, "avar_lr"), Plug(stack, "tx"))
        w2 == ConnectAttr(w1, Plug(g, "avar_ud"), Plug(stack, "ty"))
        w3 == ConnectAttr(w2, Plug(g, "avar_fb"), Plug(stack, "tz"))
        w4 == ConnectAttr(w3, Plug(g, "avar_yw"), Plug(stack, "ry"))
        w5 == ConnectAttr(w4, Plug(g, "avar_pt"), Plug(stack, "rx"))
    IN ConnectAttr(w5, Plug(g, "avar_rl"), Plug(stack, "rz"))

\* AvarSimple.build: the abstract build, then the dag stack under the rig group.
AvarSimpleBuild(w, m) ==
    LET w1 == AbstractAvarBuild(w, m)
        stack == w1.nextId
        w2 == CreateNode(w1, "stack", w1.mods[m].grp_rig)
    IN [AvarSimpleBuildStack(w2, m, stack) EXCEPT !.ret = w1.ret]

\* AvarSimple.create_ctrl, for an avar whose class has a controller class:
\* the controller model is initialised and built, and its rig group is put
\* under the module's.  (ModelInteractiveCtrl is not in the sources.)
create_ctrl(w, m) ==
    [CreateNode(w, "ctrlModel", w.mods[m].grp_rig)
        EXCEPT !.mods[m].model_ctrl = TRUE, !.ret = "None"]

\* model_ctrl.unbuild(): it deletes the model's rig group, or raises.
ModelCtrlUnbuild(w, m, raises) ==
    IF raises THEN [w EXCEPT !.ret = "Exception"]
    ELSE DeleteNodes(w, {n \in NodesOfType(w, "ctrlModel") :
                            w.nodes[n].parent = w.mods[m].grp_rig})

\* AbstractAvar.unbuild
AbstractAvarUnbuild(w, m) == ModuleUnbuild(init_avars(hold_avars(w, m), m), m)

\* Faulty variant: an exception of the controller model leaves unbuild().
AvarSimpleUnbuildUncaught(w, m, raises) ==
    IF w.mods[m].model_ctrl /\ raises THEN ModelCtrlUnbuild(w, m, raises)
    ELSE AbstractAvarUnbuild(
             IF w.mods[m].model_ctrl THEN ModelCtrlUnbuild(w, m, raises) ELSE w, m)

\* AvarSimple.unbuild: an exception of the controller model is caught and
\* logged as a warning.
AvarSimpleUnbuild(w, m, raises) ==
    LET w1 == IF ~w.mods[m].model_ctrl THEN w
              ELSE LET tried == ModelCtrlUnbuild(w, m, raises)
                   IN IF tried.ret = "Exception"
                      THEN Logged([tried EXCEPT !.ret = "None"], "warning", 0)
                      ELSE tried
    IN AbstractAvarUnbuild(w1, m)

ChildIsBuilt(w, m) == ModuleIsBuilt(w, m)

ChildBuild(w, m) ==
    IF w.mods[m].kind = "Avar" THEN AvarSimpleBuild(w, m) ELSE ModuleBuild(w, m)

ChildUnbuild(w, m) ==
    IF w.mods[m].kind = "Avar" THEN AvarSimpleUnbuild(w, m, FALSE) ELSE ModuleUnbuild(w, m)

(***************************************************************************)
(* Rig (omtk/classRig.py).                                                 *)
(***************************************************************************)
\* Node.is_built / BaseCtrl.is_built: the wrapper's node resolves.
NodeIsBuilt(w, h) == h.inst /\ IsValidPyNode(w, h.node)

NoNode == [inst |-> FALSE, node |-> NoneVal]

\* Rig.__init__
RigInit ==
    [grp_jnts |-> NoneVal, grp_anms |-> NoNode, grp_rigs |-> NoNode,
     grp_geos |-> NoNode, layer_anm |-> NoneVal, layer_geo |-> NoneVal,
     layer_rig |-> NoneVal]

\* Rig.is_built: iterates self.children, which raises when it is None.
RigIsBuilt(w) ==
    IF w.children.none THEN "TypeError"
    ELSE IF \E i \in 1..Len(w.children.list) : ChildIsBuilt(w, w.children.list[i])
         THEN "True" ELSE "False"

\* Rig._clean_invalid_pynodes: a PyNode attribute whose node is gone becomes
\* None; a list attribute loses its invalid PyNode entries (children holds
\* modules, never PyNodes) and becomes None when it is empty.
CleanPyNode(w, n) == IF IsValidPyNode(w, n) THEN n ELSE NoneVal

CleanList(c) ==
    IF ~c.none /\ Len(c.list) = 0 THEN [none |-> TRUE, list |-> <<>>] ELSE c

_clean_invalid_pynodes(w) ==
    [w EXCEPT !.rig.grp_jnts = CleanPyNode(w, @),
              !.rig.layer_anm = CleanPyNode(w, @),
              !.rig.layer_geo = CleanPyNode(w, @),
              !.rig.layer_rig = CleanPyNode(w, @),
              !.children = CleanList(@)]

\* Reparent every node of S under p, one after the other.
RECURSIVE SetParentAll(_, _, _)
SetParentAll(w, S, p) ==
    IF S = {} THEN w
    ELSE LET n == CHOOSE x \in S : TRUE
         IN SetParentAll(SetParent(w, n, p), S \ {n}, p)

\* build, pre-build (lines 151-161): find or create the root joint and put
\* the rootless joints under it.
PreBuild(w) ==
    LET roots == {n \in NodesOfType(w, "joint") \cup NodesOfType(w, "root_jnt") :
                     w.nodes[n].parent = NoneVal}
        w1 == IF IsValidPyNode(w, w.rig.grp_jnts) THEN w
              ELSE IF NodesOfType(w, "root_jnt") # {}
                   THEN [w EXCEPT !.rig.grp_jnts =
                                     CHOOSE n \in NodesOfType(w, "root_jnt") : TRUE]
                   ELSE [Logged(CreateNode(w, "root_jnt", NoneVal), "create_root_jnt", 0)
                            EXCEPT !.rig.grp_jnts = w.nextId]
    IN SetParentAll(w1, roots, w1.rig.grp_jnts)

\* What a child build that raises leaves behind: nothing, or the module's
\* groups when it raised after creating them.
ChildRaise(w, m, partial) ==
    [(IF partial THEN ChildBuild(w, m) ELSE w) EXCEPT !.ret = "Exception"]

\* Faulty variant: the exception of child i is caught and the loop goes on.
SwallowAndContinue(w, i, rest) == rest

\* An exception leaving child i is not caught: the loop ends there.
Propagate(w, i, rest) == Logged(w, "raise", i)

\* build, the loop over the children (lines 168-170): child raiseAt raises
\* (0: none does), and nothing catches it.
RECURSIVE BuildChildren(_, _, _, _)
BuildChildren(w, i, raiseAt, partial) ==
    IF i > Len(w.children.list) THEN [w EXCEPT !.ret = "None"]
    ELSE LET m == w.children.list[i]
             wl == Logged(w, "build_child", i)
         IN IF i = raiseAt
            THEN Propagate(ChildRaise(wl, m, partial), i,
                           BuildChildren(ChildRaise(wl, m, partial), i + 1, 0, FALSE))
            ELSE BuildChildren(ChildBuild(wl, m), i + 1, raiseAt, partial)

ChildHandles(w, field) ==
    {w.mods[w.children.list[i]][field] : i \in 1..Len(w.children.list)} \ {NoneVal}

\* CtrlRoot.__createNode__: the circle, its globalScale attribute and the
\* three connections into its own scale.
CtrlRootCreateNode(w) ==
    LET n == w.nextId
        w1 == Logged(CreateNode(w, "anm_root", NoneVal), "create_anm_root", 0)
        w2 == AddAttr(w1, n, "globalScale", 1)
        w3 == ConnectAttr(w2, Plug(n, "globalScale"), Plug(n, "sx"))
        w4 == ConnectAttr(w3, Plug(n, "globalScale"), Plug(n, "sy"))
    IN ConnectAttr(w4, Plug(n, "globalScale"), Plug(n, "sz"))

\* build, "Create anm root" (lines 182-189).
BuildAnmRoot(w) ==
    LET anm_grps == ChildHandles(w, "grp_anm")
        w1 == [w EXCEPT !.rig.grp_anms.inst = TRUE]
        w2 == IF NodeIsBuilt(w1, w1.rig.grp_anms) THEN w1
              ELSE [CtrlRootCreateNode(w1) EXCEPT !.rig.grp_anms.node = w1.nextId]
    IN SetParentAll(w2, anm_grps, w2.rig.grp_anms.node)

MasterScale(w) == Plug(w.rig.grp_anms.node, "globalScale")

\* build, "Connect globalScale attribute to each modules globalScale"
\* (lines 192-194).
RECURSIVE ConnectChildScale(_, _)
ConnectChildScale(w, i) ==
    IF i > Len(w.children.list) THEN w
    ELSE LET m == w.children.list[i]
             w1 == IF w.mods[m].globalScale
                   THEN ConnectAttrForce(w, MasterScale(w),
                                         Plug(w.mods[m].grp_rig, "globalScale"))
                   ELSE w
         IN ConnectChildScale(w1, i + 1)

\* build, "Constraint grp_jnts to grp_anms" (lines 197-201).
ConstrainJnts(w) ==
    LET j == w.rig.grp_jnts
        old == {c \in ChildrenOf(w, j) : w.nodes[c].type = "constraint"}
        w1 == DeleteNodes(w, old)
        w2 == Logged(CreateNode(w1, "constraint", j), "create_constraint", 0)
        w3 == ConnectAttrForce(w2, MasterScale(w), Plug(j, "scaleX"))
        w4 == ConnectAttrForce(w3, MasterScale(w), Plug(j, "scaleY"))
    IN ConnectAttrForce(w4, MasterScale(w), Plug(j, "scaleZ"))

\* build, "Create rig root" (lines 204-211).
BuildRigRoot(w) ==
    LET rig_grps == ChildHandles(w, "grp_rig")
        w1 == [w EXCEPT !.rig.grp_rigs.inst = TRUE]
        w2 == IF NodeIsBuilt(w1, w1.rig.grp_rigs) THEN w1
              ELSE [Logged(CreateNode(w1, "rig_root", NoneVal), "create_rig_root", 0)
                       EXCEPT !.rig.grp_rigs.node = w1.nextId]
    IN SetParentAll(w2, rig_grps, w2.rig.grp_rigs.node)

\* Faulty variant: a geometry group is created at every build.
BuildGeoRootAnew(w) ==
    LET all_geos == {n \in NodesOfType(w, "mesh") : w.nodes[n].parent = NoneVal}
        w1 == [w EXCEPT !.rig.grp_geos.inst = TRUE]
        w2 == [Logged(CreateNode(w1, "geo_root", NoneVal), "create_geo_root", 0)
                  EXCEPT !.rig.grp_geos.node = w1.nextId]
    IN SetParentAll(w2, all_geos, w2.rig.grp_geos.node)

\* build, "Create geo root" (lines 214-220).
BuildGeoRoot(w) ==
    LET all_geos == {n \in NodesOfType(w, "mesh") : w.nodes[n].parent = NoneVal}
        w1 == [w EXCEPT !.rig.grp_geos.inst = TRUE]
        w2 == IF NodeIsBuilt(w1, w1.rig.grp_geos) THEN w1
              ELSE [Logged(CreateNode(w1, "geo_root", NoneVal), "create_geo_root", 0)
                       EXCEPT !.rig.grp_geos.node = w1.nextId]
    IN SetParentAll(w2, all_geos, w2.rig.grp_geos.node)

\* editDisplayLayerMembers: the layer draws the node (a node is in one layer).
AddToLayer(w, layer, n) ==
    ConnectAttrForce(w, Plug(layer, "drawInfo"), Plug(n, "drawOverride"))

\* build, "Setup displayLayers" (lines 223-237): three new layers, always.
SetupDisplayLayers(w) ==
    LET la == w.nextId
        w1 == Logged(CreateNode(w, "layer_anm", NoneVal), "create_layer_anm", 0)
        w2 == AddToLayer(w1, la, w.rig.grp_anms.node)
        lr == w2.nextId
        w3 == Logged(CreateNode(w2, "layer_rig", NoneVal), "create_layer_rig", 0)
        w4 == AddToLayer(AddToLayer(w3, lr, w.rig.grp_rigs.node), lr, w.rig.grp_jnts)
        lg == w4.nextId
        w5 == Logged(CreateNode(w4, "layer_geo", NoneVal), "create_layer_geo", 0)
        w6 == AddToLayer(w5, lg, w.rig.grp_geos.node)
    IN [w6 EXCEPT !.rig.layer_anm = la, !.rig.layer_rig = lr, !.rig.layer_geo = lg]

\* Faulty variant: the joint root is constrained after the rig and geometry
\* groups are there.
PostBuildGroupsFirst(w) ==
    [SetupDisplayLayers(ConstrainJnts(BuildGeoRoot(BuildRigRoot(
        ConnectChildScale(BuildAnmRoot(w), 1))))) EXCEPT !.ret = "True"]

\* build, post-build (lines 182-241).
PostBuild(w) ==
    [SetupDisplayLayers(BuildGeoRoot(BuildRigRoot(ConstrainJnts(
        ConnectChildScale(BuildAnmRoot(w), 1))))) EXCEPT !.ret = "True"]

\* Faulty variant: build() without its "already built" guard.
RigBuildNoGuard(w, raiseAt, partial) ==
    IF RigIsBuilt(w) = "TypeError" THEN [w EXCEPT !.ret = "TypeError"]
    ELSE LET w1 == BuildChildren(PreBuild(w), 1, raiseAt, partial)
         IN IF w1.ret = "Exception" THEN w1 ELSE PostBuild(w1)

\* Rig.build
RigBuild(w, raiseAt, partial) ==
    LET built == RigIsBuilt(w)
    IN IF built = "TypeError" THEN [w EXCEPT !.ret = "TypeError"]
       ELSE IF built = "True" THEN [w EXCEPT !.ret = "False"]
       ELSE LET w1 == BuildChildren(PreBuild(w), 1, raiseAt, partial)
            IN IF w1.ret = "Exception" THEN w1 ELSE PostBuild(w1)

\* unbuild, "Unbuild all children" (lines 249-251).
RECURSIVE UnbuildChildren(_, _)
UnbuildChildren(w, i) ==
    IF i > Len(w.children.list) THEN w
    ELSE LET m == w.children.list[i]
             w1 == IF ChildIsBuilt(w, m)
                   THEN ChildUnbuild(Logged(w, "unbuild_child", i), m)
                   ELSE w
         IN UnbuildChildren(w1, i + 1)

\* unbuild, "Delete anm_grp" (lines 254-255).
UnbuildAnmRoot(w) ==
    IF NodeIsBuilt(w, w.rig.grp_anms)
    THEN [DeleteNodes(w, {w.rig.grp_anms.node}) EXCEPT !.rig.grp_anms.node = NoneVal]
    ELSE w

\* unbuild, "Delete the rig group if it isnt used anymore" (lines 258-260).
UnbuildRigRoot(w) ==
    IF NodeIsBuilt(w, w.rig.grp_rigs) /\ ChildrenOf(w, w.rig.grp_rigs.node) = {}
    THEN [DeleteNodes(w, {w.rig.grp_rigs.node}) EXCEPT !.rig.grp_rigs = NoNode]
    ELSE w

\* Faulty variant: the rig layer is forgotten.
UnbuildLayersButRig(w) ==
    LET w1 == IF IsValidPyNode(w, w.rig.layer_anm)
              THEN [DeleteNodes(w, {w.rig.layer_anm}) EXCEPT !.rig.layer_anm = NoneVal]
              ELSE w
    IN IF IsValidPyNode(w1, w1.rig.layer_geo)
       THEN [DeleteNodes(w1, {w1.rig.layer_geo}) EXCEPT !.rig.layer_geo = NoneVal]
       ELSE w1

\* unbuild, "Delete the displayLayers" (lines 263-270): layer_rig is deleted
\* but its handle is left to the clean-up.
UnbuildLayers(w) ==
    LET w1 == IF IsValidPyNode(w, w.rig.layer_anm)
              THEN [DeleteNodes(w, {w.rig.layer_anm}) EXCEPT !.rig.layer_anm = NoneVal]
              ELSE w
        w2 == IF IsValidPyNode(w1, w1.rig.layer_geo)
              THEN [DeleteNodes(w1, {w1.rig.layer_geo}) EXCEPT !.rig.layer_geo = NoneVal]
              ELSE w1
    IN IF IsValidPyNode(w2, w2.rig.layer_rig)
       THEN DeleteNodes(w2, {w2.rig.layer_rig})
       ELSE w2

\* Rig.unbuild
RigUnbuild(w) ==
    IF w.children.none THEN [w EXCEPT !.ret = "TypeError"]
    ELSE [_clean_invalid_pynodes(UnbuildLayers(UnbuildRigRoot(UnbuildAnmRoot(
             UnbuildChildren(w, 1))))) EXCEPT !.ret = "True"]

\* Rig.add_module: appends, and sets the module's back-reference; on a
\* children attribute that is None the append raises.
RigAddModule(w, m) ==
    IF w.children.none THEN [w EXCEPT !.mods[m].root = TRUE, !.ret = "AttributeError"]
    ELSE [w EXCEPT !.mods[m].root = TRUE,
                   !.children.list = Append(@, m),
                   !.ret = "None"]

\* The sequence protocol of the Rig (lines 60-77), with Python's indexes
\* (0 is the first child).
MaxSeqLen == 3        \* insert() is not called on a rig of this many children

\* list.insert: before index i, at the end when i is past it.
ListInsert(l, i, m) ==
    IF i >= Len(l) THEN Append(l, m)
    ELSE SubSeq(l, 1, i) \o <<m>> \o SubSeq(l, i + 1, Len(l))

\* Rig.__getitem__: the item is looked up and nothing is returned.
Rig__getitem__(w, i) ==
    IF w.children.none THEN [w EXCEPT !.ret = "AttributeError"]
    ELSE IF i >= Len(w.children.list) THEN [w EXCEPT !.ret = "IndexError"]
    ELSE [w EXCEPT !.ret = "None"]

\* Rig.__setitem__
Rig__setitem__(w, i, m) ==
    IF w.children.none THEN [w EXCEPT !.ret = "AttributeError"]
    ELSE IF i >= Len(w.children.list) THEN [w EXCEPT !.ret = "IndexError"]
    ELSE [w EXCEPT !.children.list[i + 1] = m, !.ret = "None"]

\* Rig.__delitem__
Rig__delitem__(w, i) ==
    IF w.children.none THEN [w EXCEPT !.ret = "AttributeError"]
    ELSE IF i >= Len(w.children.list) THEN [w EXCEPT !.ret = "IndexError"]
    ELSE [w EXCEPT !.children.list = SubSeq(@, 1, i) \o SubSeq(@, i + 2, Len(@)),
                   !.ret = "None"]

\* Rig.__len__
Rig__len__(w) ==
    IF w.children.none THEN [w EXCEPT !.ret = "AttributeError"]
    ELSE [w EXCEPT !.ret = Len(w.children.list)]

\* Rig.__iter__, run to its end: what it yields, in order.
Rig__iter__(w) ==
    IF w.children.none THEN [w EXCEPT !.ret = "TypeError"]
    ELSE [w EXCEPT !.ret = w.children.list]

\* Rig.insert
RigInsert(w, i, m) ==
    IF w.children.none THEN [w EXCEPT !.ret = "AttributeError"]
    ELSE [w EXCEPT !.children.list = ListInsert(@, i, m),
                   !.mods[m].parent = TRUE,
                   !.ret = "None"]

(***************************************************************************)
(* DpSpine (omtk/rigDpSpine.py).  The classes it builds on (the controller *)
(* base class, the Ribbon module, the rigging helpers) are not part of the *)
(* sources: a controller is one node, a ribbon is a group holding one      *)
(* ribbon joint per input joint, a constraint is a node under the          *)
(* constrained one, a utility node is a node of the scene without parent.  *)
(***************************************************************************)
\* DpSpine.__init__: no controller yet.
DpSpineInit(chain) ==
    [chain |-> chain,
     ctrl_ik_dwn |-> NoNode, ctrl_ik_upp |-> NoNode, ctrl_fk_dwn |-> NoNode,
     ctrl_fk_mid |-> NoNode, ctrl_fk_upp |-> NoNode]

\* Faulty variant: a chain of more than 3 joints is let through.
ChainAtLeast3(chain) == Len(chain) >= 3

\* build, line 31: the chain build() goes on with.
ChainAccepted(chain) == Len(chain) = 3

\* One controller of the spine: the wrapper is instantiated when it is not
\* one yet, built (a new node), and parented.
SpineCtrl(w, field, t, parent) ==
    LET n == w.nextId
        w1 == Logged(CreateNode(w, t, NoneVal), "create_ctrl", 0)
    IN SetParent([w1 EXCEPT !.spine[field] = [inst |-> TRUE, node |-> n]], n, parent)

\* Ribbon(self.input).build(): the ribbon's rig group and its ribbon joints.
RECURSIVE RibbonJnts(_, _, _)
RibbonJnts(w, grp, k) ==
    IF k = 0 THEN w ELSE RibbonJnts(CreateNode(w, "ribbon_jnt", grp), grp, k - 1)

RibbonBuild(w) ==
    LET grp == w.nextId
        w1 == Logged(CreateNode(w, "ribbon_rig", NoneVal), "create_ribbon", 0)
    IN RibbonJnts(w1, grp, Len(w.spine.chain))

\* parentConstraint, pointConstraint, orientConstraint on each node of S.
RECURSIVE ConstrainAll(_, _)
ConstrainAll(w, S) ==
    IF S = {} THEN w
    ELSE LET n == CHOOSE x \in S : TRUE
         IN ConstrainAll(CreateNode(w, "constraint", n), S \ {n})

\* connectAttr without force, in a sequence of calls: the first one whose
\* destination already has an input raises, and the calls after it do not run.
ConnectOrRaise(w, src, dst) ==
    IF w.ret = "RuntimeError" THEN w
    ELSE IF Inputs(w, dst) # {} THEN [w EXCEPT !.ret = "RuntimeError"]
    ELSE ConnectAttr(w, src, dst)

\* Faulty variant: the middle FK controller put under the upper IK controller.
SpineCtrlsMidUnderUpper(w) ==
    LET w1 == SpineCtrl(w, "ctrl_ik_dwn", "ctrl_ik", w.mods[SpineModule].grp_anm)
        w2 == SpineCtrl(w1, "ctrl_ik_upp", "ctrl_ik", w1.spine.ctrl_ik_dwn.node)
        w3 == SpineCtrl(w2, "ctrl_fk_dwn", "ctrl_fk", w2.spine.ctrl_ik_dwn.node)
        w4 == SpineCtrl(w3, "ctrl_fk_upp", "ctrl_fk", w3.spine.ctrl_ik_upp.node)
    IN SpineCtrl(w4, "ctrl_fk_mid", "ctrl_fk", w4.spine.ctrl_ik_upp.node)

\* build, lines 48-90: the two IK and the three FK controllers.
SpineCtrls(w) ==
    LET w1 == SpineCtrl(w, "ctrl_ik_dwn", "ctrl_ik", w.mods[SpineModule].grp_anm)
        w2 == SpineCtrl(w1, "ctrl_ik_upp", "ctrl_ik", w1.spine.ctrl_ik_dwn.node)
        w3 == SpineCtrl(w2, "ctrl_fk_dwn", "ctrl_fk", w2.spine.ctrl_ik_dwn.node)
        w4 == SpineCtrl(w3, "ctrl_fk_upp", "ctrl_fk", w3.spine.ctrl_ik_upp.node)
    IN SpineCtrl(w4, "ctrl_fk_mid", "ctrl_fk", w4.spine.ctrl_ik_dwn.node)

\* build, lines 93-114: the constraint of the middle controller, the ribbon
\* under the rig group, its first three joints constrained to the FK
\* controllers, the last joint of the chain oriented by the upper one.
SpineRibbon(w) ==
    LET w1 == CreateNode(w, "constraint", w.spine.ctrl_fk_mid.node)
        ribbon == w1.nextId
        w2 == SetParent(RibbonBuild(w1), ribbon, w1.mods[SpineModule].grp_rig)
        jnts == ChildrenOf(w2, ribbon)
        three == IF Cardinality(jnts) <= 3 THEN jnts
                 ELSE CHOOSE T \in SUBSET jnts : Cardinality(T) = 3
        last_jnt == w.spine.chain[Len(w.spine.chain)]
        w3 == ConstrainAll(w2, three)
        w4 == [w3 EXCEPT !.conns = {c \in @ : c[2] \notin
                   {Plug(last_jnt, "rotateX"), Plug(last_jnt, "rotateY"),
                    Plug(last_jnt, "rotateZ")}}]
    IN CreateNode(w4, "constraint", last_jnt)

\* build, lines 120-140: the squashAmount attribute, the arc length node
\* under the rig group, the two blend nodes and their connections into the
\* scale of the first and of the middle joint.
SpineSquash(w) ==
    LET g == w.mods[SpineModule].grp_rig
        w1 == AddAttr(w, g, "squashAmount", 1)
        w2 == CreateNode(w1, "arc_length", g)
        blend == w2.nextId
        w3 == CreateNode(w2, "blendTwoAttr", NoneVal)
        blend_first == w3.nextId
        w4 == CreateNode(w3, "blendTwoAttr", NoneVal)
        first_jnt == w.spine.chain[1]
        middle_jnt == w.spine.chain[2]
        w5 == ConnectOrRaise(w4, Plug(blend_first, "output"), Plug(first_jnt, "scaleY"))
        w6 == ConnectOrRaise(w5, Plug(blend_first, "output"), Plug(first_jnt, "scaleZ"))
        w7 == ConnectOrRaise(w6, Plug(blend, "output"), Plug(middle_jnt, "scaleY"))
    IN ConnectOrRaise(w7, Plug(blend, "output"), Plug(middle_jnt, "scaleZ"))

\* DpSpine.build
DpSpineBuild(w) ==
    IF ~ChainAccepted(w.spine.chain) THEN [w EXCEPT !.ret = "Exception"]
    ELSE LET w1 == Logged(ModuleBuild(w, SpineModule), "module_build", 0)
         IN SpineSquash(SpineRibbon(SpineCtrls([w1 EXCEPT !.ret = "None"])))

\* DpSpine has no unbuild of its own: the base module's runs.
DpSpineUnbuild(w) == ModuleUnbuild(w, SpineModule)

\* What get_parent gives: a controller attribute of the spine (None before
\* the first build), or what the base class answers for p.
CtrlValue(h) ==
    IF h.inst THEN [kind |-> "ctrl", node |-> h.node] ELSE [kind |-> "None", node |-> NoneVal]

\* Module.get_parent
ModuleGetParent(w, p) == [kind |-> "base", node |-> p]

\* Faulty variant: the last joint is not looked for.
GetParentFirstOnly(w, p) ==
    IF Len(w.spine.chain) = 0 THEN [w EXCEPT !.ret = [kind |-> "IndexError", node |-> NoneVal]]
    ELSE IF p = w.spine.chain[1] THEN [w EXCEPT !.ret = CtrlValue(w.spine.ctrl_fk_dwn)]
    ELSE [w EXCEPT !.ret = ModuleGetParent(w, p)]

\* DpSpine.get_parent
DpSpineGetParent(w, p) ==
    IF Len(w.spine.chain) = 0 THEN [w EXCEPT !.ret = [kind |-> "IndexError", node |-> NoneVal]]
    ELSE IF p = w.spine.chain[1] THEN [w EXCEPT !.ret = CtrlValue(w.spine.ctrl_fk_dwn)]
    ELSE IF p = w.spine.chain[Len(w.spine.chain)]
         THEN [w EXCEPT !.ret = CtrlValue(w.spine.ctrl_fk_upp)]
    ELSE [w EXCEPT !.ret = ModuleGetParent(w, p)]

(***************************************************************************)
(* AvarFollicle (omtk/modules/rigFaceAvar.py), the network build_stack     *)
(* wires between the avars and the oobLayer.  Values are fixed-point: a     *)
(* real x is the integer x * One, and the out-of-bound step 0.001 is 4, so *)
(* that half a step is a value too.                                        *)
(***************************************************************************)
oob_step_size == 4
One == 1000 * oob_step_size

\* The default multipliers, 0.25 (lines 100-101).
multiplier_lr == One \div 4
multiplier_ud == One \div 4

MaxAvarFifths == 16   \* the avars are set to -MaxAvarFifths/5 .. MaxAvarFifths/5

\* The values an avar is set to: the fifths, and the two values that put a
\* parameter of base 0.5 half a step inside its bounds.
AvarValues ==
    {i * (One \div 5) : i \in -MaxAvarFifths..MaxAvarFifths}
    \cup {2 * One - 2 * oob_step_size, -(2 * One - 2 * oob_step_size)}

BaseValues == {One \div 2, One \div 4}

\* multiplyDivide, operation 1 (multiply) and 2 (divide).
Multiply(a, b) == (a * b) \div One
Divide(a, b) == (a * One) \div b

\* clamp
Clamp(x, lo, hi) == IF x < lo THEN lo ELSE IF x > hi THEN hi ELSE x

\* condition: operation 0 is "equal", 2 "greater than", 4 "less than".
Condition(operation, firstTerm, secondTerm, colorIfTrue, colorIfFalse) ==
    LET holds == CASE operation = 0 -> firstTerm = secondTerm
                   [] operation = 2 -> firstTerm > secondTerm
                   [] operation = 4 -> firstTerm < secondTerm
                   [] OTHER -> FALSE
    IN IF holds THEN colorIfTrue ELSE colorIfFalse

\* A follicle on the surface, here the unit plane: its translation is the
\* point of the plane at (u, v), and a parameter outside [0, 1] leaves it on
\* the border.
FollicleTranslate(u, v) == <<Clamp(u, 0, One), Clamp(v, 0, One)>>

\* plusMinusAverage on vectors: operation 1 (sum) and 2 (subtract).
Sum3D(a, b) == <<a[1] + b[1], a[2] + b[2]>>
Subtract3D(a, b) == <<a[1] - b[1], a[2] - b[2]>>

\* _get_follicle_absolute_uv_attr: base + avar * multiplier.
follicle_absolute_uv(base, avar, multiplier) == base + Multiply(avar, multiplier)

\* Lines 926-955, one axis: 1.0 when the parameter is below 0, above 1.
condition_oob_neg(p) == Condition(4, p, 0, One, 0)
condition_oob_pos(p) == Condition(2, p, One, One, 0)

\* Lines 958-979, one axis: by how many steps the parameter is out.
oob_amount(p) ==
    LET oob_val_pos == p - One
        oob_val_neg == Multiply(p, -One)
        oob_val == Condition(0, condition_oob_pos(p), One, oob_val_pos, oob_val_neg)
    IN Divide(oob_val, oob_step_size)

\* Lines 976-979: the amount times the direction.
oob_offset_axis(amount, dir) == <<Multiply(amount, dir[1]), Multiply(amount, dir[2])>>

\* Faulty variant: the offset of an axis is let through whatever its conditions say.
OffsetUngated(added, offset) == offset

\* Lines 987-993 and 1001-1007: the offset of an axis passes when the sum of
\* the two conditions of that axis is 1.0.
oob_condition_out(added, offset) == Condition(0, added, One, offset, <<0, 0>>)

\* Faulty variant: the V input of the sum is forgotten.
OobOffsetFirst(out_u, out_v) == out_u

\* Lines 1011-1012: the sum of the two axes.
oob_offset(out_u, out_v) == Sum3D(out_u, out_v)

\* The network evaluated for the avars and the bases of f.
EvaluateFollicle(f) ==
    LET u == follicle_absolute_uv(f.baseU, f.avar_lr, multiplier_lr)
        v == follicle_absolute_uv(f.baseV, f.avar_ud, multiplier_ud)
        clamped_u == Clamp(u, oob_step_size, One - oob_step_size)
        clamped_v == Clamp(v, oob_step_size, One - oob_step_size)
        fol_influence == FollicleTranslate(u, v)
        fol_clamped_v == FollicleTranslate(u, clamped_v)
        fol_clamped_u == FollicleTranslate(clamped_u, v)
        dir_oob_u == Subtract3D(fol_influence, fol_clamped_u)
        dir_oob_v == Subtract3D(fol_influence, fol_clamped_v)
        oob_offset_u == oob_offset_axis(oob_amount(u), dir_oob_u)
        oob_offset_v == oob_offset_axis(oob_amount(v), dir_oob_v)
        out_u == oob_condition_out(condition_oob_neg(u) + condition_oob_pos(u),
                                   oob_offset_u)
        out_v == oob_condition_out(condition_oob_neg(v) + condition_oob_pos(v),
                                   oob_offset_v)
    IN [f EXCEPT !.surfaceU = u, !.surfaceV = v, !.oob_u = out_u, !.oob_v = out_v,
                 !.layer_oob = oob_offset(out_u, out_v)]

\* The dag stack: its layers, and the layers it had after each call made on it.
EmptyStack == [layers |-> << >>, steps |-> << >>]

\* Node.append_layer: a new transform, named, under the last layer.
append_layer(stack, name) ==
    [layers |-> Append(stack.layers, name),
     steps |-> Append(stack.steps, Append(stack.layers, name))]

\* AvarSimple.build_stack: the layers it appends.
AvarSimpleStackLayers(stack) == append_layer(stack, "pos")

\* Faulty variant: the overriding build_stack first runs the one it overrides.
FollicleStackOverSimple(stack) ==
    append_layer(append_layer(append_layer(append_layer(append_layer(
        AvarSimpleStackLayers(stack),
        "follicleLayer"), "oobLayer"), "fbLayer"), "folRot"), "rotLayer")

\* AvarFollicle.build_stack: the layers it appends (lines 867, 1014, 1021,
\* 1034, 1040); it overrides AvarSimple.build_stack and does not call it.
AvarFollicleStackLayers(stack) ==
    append_layer(append_layer(append_layer(append_layer(append_layer(
        stack,
        "follicleLayer"), "oobLayer"), "fbLayer"), "folRot"), "rotLayer")

\* A follicle avar as build leaves it: the stack populated by build_stack
\* (AvarSimple.build, lines 437-463), the avars at 0, the network evaluated.
AvarFollicleBuilt(base_u, base_v) ==
    EvaluateFollicle([baseU |-> base_u, baseV |-> base_v, avar_lr |-> 0, avar_ud |-> 0,
                      surfaceU |-> 0, surfaceV |-> 0, oob_u |-> <<0, 0>>,
                      oob_v |-> <<0, 0>>, layer_oob |-> <<0, 0>>,
                      stack |-> AvarFollicleStackLayers(EmptyStack)])

(***************************************************************************)
(* SoftIkNode (omtk/rigging/autorig/rigIK.py): the formula network between *)
(* the node's input attributes and outRatio, outStretch.  Values are       *)
(* fixed-point as above.                                                   *)
(***************************************************************************)
MaxIkHalves == 24     \* the control is moved 0 .. MaxIkHalves/2 away from the chain start

\* The distances the control is put at, the soft ratios (0 .. 0.5) and the
\* chain lengths (the default 1.0, and the 10.0 of the comments) it is given.
IkDistances == {k * (One \div 2) : k \in 0..MaxIkHalves} \cup {(9 * One) \div 10}
IkRatios == {0, One \div 10, One \div 4, One \div 2}
IkChainLengths == {One, 10 * One}

\* What a division by zero of the network may give.
Undefined == {0, -One, 1000 * One}

\* A division node: its output when the divisor is 0 is not defined.
Quotient(a, b, undef) == IF b = 0 THEN undef ELSE Divide(a, b)

\* e^x, second order, saturating 4.0 away from 0.
ExpRange == 4 * One
ExpUp(y) == One + y + Multiply(y, y) \div 2
Exp(x) ==
    IF x >= 0 THEN ExpUp(Clamp(x, 0, ExpRange))
    ELSE Divide(One, ExpUp(Clamp(-x, 0, ExpRange)))

\* blendTwoAttr with inputs [a, b]: a at blender 0, b at blender 1.
blendTwoAttr(a, b, attributesBlender) ==
    Multiply(a, One - attributesBlender) + Multiply(b, attributesBlender)

distanceSoft(n) == Multiply(n.inChainLength, n.inRatio)

distanceSafe(n) == n.inChainLength - distanceSoft(n)

\* (inDistance-distanceSafe)/distanceSoft, replaced by 0 when distanceSoft is 0.
deltaSafeSoft(n, undef) ==
    Condition(0, distanceSoft(n), 0, 0,
              Quotient(n.inDistance - distanceSafe(n), distanceSoft(n), undef))

outDistanceSoft(n, undef) ==
    Multiply(distanceSoft(n), One - Exp(-deltaSafeSoft(n, undef))) + distanceSafe(n)

\* Faulty variant: the softened distance is used on both sides of the safe distance.
AlwaysSoft(delta, soft, inDistance) == soft

outDistanceGate(delta, soft, inDistance) == Condition(2, delta, 0, soft, inDistance)

outDistance(n, undef) ==
    blendTwoAttr(outDistanceGate(deltaSafeSoft(n, undef), outDistanceSoft(n, undef),
                                 n.inDistance),
                 n.inDistance, n.inStretch)

\* Faulty variant: the stretch is gated like outDistance, by deltaSafeSoft > 0.
OutStretchGatedByDelta(n, undef) ==
    LET raw == Quotient(n.inDistance, outDistanceSoft(n, undef), undef)
        gated == Condition(2, deltaSafeSoft(n, undef), 0, raw, One)
    IN blendTwoAttr(One, gated, n.inStretch)

outStretch(n, undef) ==
    LET raw == Quotient(n.inDistance, outDistanceSoft(n, undef), undef)
        gated == Condition(2, n.inDistance, distanceSafe(n), raw, One)
    IN blendTwoAttr(One, gated, n.inStretch)

outRatio(n, undef) == Quotient(outDistance(n, undef), n.inDistance, undef)

\* The node with its outputs evaluated.
EvaluateSoftIk(n, undef) ==
    [n EXCEPT !.delta = deltaSafeSoft(n, undef),
              !.outRatio = outRatio(n, undef),
              !.outStretch = outStretch(n, undef)]

\* SoftIkNode.build, wired to a chain of the default length 1.0 whose control
\* rests at the chain's end.
SoftIkNodeBuilt ==
    EvaluateSoftIk([inDistance |-> One, inRatio |-> 0, inStretch |-> 0,
                    inChainLength |-> One, delta |-> 0, outRatio |-> 0,
                    outStretch |-> 0], 0)

(***************************************************************************)
(* The legacy IK part (rigging/AutoRig/rigIK.py): the stretch network that *)
(* IK.Build wires between the control's distance and the translations of   *)
(* the joints after the first.                                             *)
(***************************************************************************)
MaxLegacyQuarters == 40   \* the control is moved 0 .. MaxLegacyQuarters/4 away from the chain root

LegacyDistances == {k * (One \div 4) : k \in 0..MaxLegacyQuarters}

\* The lengths of the translations of the joints aInput[1 .. iCtrlIndex].
LegacyChains == {<<One, One>>, <<2 * One, 3 * One>>, <<One \div 2, One \div 2>>}

RECURSIVE SumLengths(_, _)
SumLengths(t, i) == IF i > Len(t) THEN 0 ELSE t[i] + SumLengths(t, i + 1)

\* IK.__init__
LegacyIkInit ==
    [built |-> FALSE, bStretch |-> TRUE, rest |-> <<>>, fChainLength |-> 0,
     distance |-> 0, attStretch |-> NoneVal, t |-> <<>>]

fChainLength(rest) == SumLengths(rest, 1)

\* Faulty variant: the quotient is passed on without the clamp.
StretchUnclamped(attChainDistance, length) == Divide(attChainDistance, length)

\* The multiplyDivide (divide) and the condition (greater than) of Build.
attStretch(attChainDistance, length) ==
    Condition(2, Divide(attChainDistance, length), One,
              Divide(attChainDistance, length), One)

\* The translations of the joints: attNewPos where the stretch is connected.
attNewPos(l) ==
    IF l.bStretch
    THEN [i \in 1..Len(l.rest) |-> Multiply(l.rest[i], l.attStretch)]
    ELSE l.rest

EvaluateLegacyIk(l) ==
    LET l1 == IF l.bStretch
              THEN [l EXCEPT !.attStretch = attStretch(l.distance, l.fChainLength)]
              ELSE l
    IN [l1 EXCEPT !.t = attNewPos(l1)]

\* IK.Build: the control is put at the end of the chain.
LegacyIkBuild(l, rest) ==
    EvaluateLegacyIk([l EXCEPT !.built = TRUE, !.rest = rest,
                               !.fChainLength = fChainLength(rest),
                               !.distance = fChainLength(rest)])

(***************************************************************************)
(* The module registry (scripts/omtk/modules/__init__.py).                 *)
(***************************************************************************)
MaxInstances == 3     \* create() is not called once this many instances were made

\* Some of the classes the registry imports, and the names asked for.
RegisteredNames == {"IK", "DpSpine", "Arm"}
RequestedNames == RegisteredNames \cup {"Unknown", ""}

\* The argument lists given to create().
ArgLists == {<< >>, <<"jnt_arm">>}

NoClass == [kind |-> "None", name |-> ""]

RegistryInit == [made |-> << >>, ret |-> NoClass, message |-> << >>]

\* libPython.get_class_def: the Module subclass of that name, None without one.
get_class_def(cls_name) ==
    IF cls_name \in RegisteredNames THEN [kind |-> "class", name |-> cls_name]
    ELSE NoClass

\* Faulty variant: the message does not name what was asked for.
NotFoundAnonymous(cls_name) == <<"Can't find any module named ">>

\* "Can't find any module named {0}".format(cls_name)
NotFoundMessage(cls_name) == <<"Can't find any module named ", cls_name>>

\* cls(*args, **kwargs)
Instantiate(r, cls, args) ==
    [r EXCEPT !.made = Append(@, [cls |-> cls.name, args |-> args])]

\* Faulty variant: the new instance is returned.
CreateReturnsInstance(r, cls_name, args) ==
    LET cls == get_class_def(cls_name)
    IN IF cls = NoClass
       THEN [r EXCEPT !.ret = [kind |-> "Exception", name |-> "Exception"],
                      !.message = NotFoundMessage(cls_name)]
       ELSE [Instantiate(r, cls, args) EXCEPT
                 !.ret = [kind |-> "instance", name |-> cls_name], !.message = << >>]

create(r, cls_name, args) ==
    LET cls == get_class_def(cls_name)
    IN IF cls = NoClass
       THEN [r EXCEPT !.ret = [kind |-> "Exception", name |-> "Exception"],
                      !.message = NotFoundMessage(cls_name)]
       ELSE [Instantiate(r, cls, args) EXCEPT !.ret = cls, !.message = << >>]

(***************************************************************************)
(* The maintenance script (scripts/omtk/fixes/fix_missing_rig_attr.py).    *)
(* A scene is the list of its network nodes as pymel.ls gives them; a      *)
(* network has the class it was serialized from, may have a 'rig'          *)
(* attribute, and that attribute may receive a connection from the message *)
(* attribute of another network (rigIn, NoneVal without connection).       *)
(***************************************************************************)
MaxNets == 3          \* network nodes in the scenes the script is run on

NetClasses == {"Rig", "Module", "Other"}

\* calls: the addAttr and connectAttr calls of the last run, in order.
NoScene == [nets |-> << >>, ret |-> "None", calls |-> << >>]

\* The networks a scene of n nodes can hold at position k.
NetsAt(n, k) ==
    {net \in [cls : NetClasses, hasRig : BOOLEAN, rigIn : 0..n] :
        /\ net.rigIn # k
        /\ net.rigIn # NoneVal => net.hasRig
        /\ net.cls # "Module" => ~net.hasRig}

Scenes ==
    UNION {{sc \in [1..n -> UNION {NetsAt(n, k) : k \in 1..n}] :
               \A k \in 1..n : sc[k] \in NetsAt(n, k)} : n \in 1..MaxNets}

\* libSerialization.isNetworkInstanceOfClass
isNetworkInstanceOfClass(net, cls) == net.cls = cls

\* next(iter(...), None): the first network serialized from a Rig.
net_rig(nets) ==
    LET rigs == {k \in 1..Len(nets) : isNetworkInstanceOfClass(nets[k], "Rig")}
    IN IF rigs = {} THEN NoneVal ELSE CHOOSE k \in rigs : \A j \in rigs : k <= j

\* pymel.addAttr(net, longName='rig', ...)
AddRigAttr(sc, k) ==
    [sc EXCEPT !.nets[k].hasRig = TRUE, !.calls = Append(@, <<"addAttr", k, k>>)]

\* pymel.connectAttr(net_rig.message, net.rig)
ConnectRig(sc, k, rigNet) ==
    [sc EXCEPT !.nets[k].rigIn = rigNet, !.calls = Append(@, <<"connectAttr", rigNet, k>>)]

\* Faulty variant: the connection is made whatever the attribute receives.
FixNetForced(sc, k, rigNet) ==
    IF ~isNetworkInstanceOfClass(sc.nets[k], "Module") THEN sc
    ELSE LET sc1 == IF sc.nets[k].hasRig THEN sc ELSE AddRigAttr(sc, k)
         IN IF rigNet = NoneVal THEN [sc1 EXCEPT !.ret = "AttributeError"]
            ELSE ConnectRig(sc1, k, rigNet)

\* The body of the loop for the k-th network (lines 9-15).
FixNet(sc, k, rigNet) ==
    IF ~isNetworkInstanceOfClass(sc.nets[k], "Module") THEN sc
    ELSE LET sc1 == IF sc.nets[k].hasRig THEN sc ELSE AddRigAttr(sc, k)
         IN IF sc1.nets[k].rigIn # NoneVal THEN sc1
            ELSE IF rigNet = NoneVal THEN [sc1 EXCEPT !.ret = "AttributeError"]
            ELSE ConnectRig(sc1, k, rigNet)

RECURSIVE FixFrom(_, _, _)
FixFrom(sc, k, rigNet) ==
    IF k > Len(sc.nets) \/ sc.ret = "AttributeError" THEN sc
    ELSE FixFrom(FixNet(sc, k, rigNet), k + 1, rigNet)

\* run()
run(sc) == FixFrom([sc EXCEPT !.ret = "None", !.calls = << >>], 1, net_rig(sc.nets))

(***************************************************************************)
(* Control shapes (omtk/libs/libCtrlShapes.py).  A curve is the list of    *)
(* its points; lengths are in the fixed-point unit One.                    *)
(***************************************************************************)
MaxShapeHalves == 8   \* the shapes are made with sizes 0.5 .. MaxShapeHalves/2

ShapeSizes == {k * (One \div 2) : k \in 1..MaxShapeHalves}

\* An argument left to its default None.
NoArg == -1

NeedleLengths == {NoArg, One, 5 * One}
NeedleRadii == {NoArg, One \div 2}
Normals == {<<0, 1, 0>>, <<0, -1, 0>>, <<1, 0, 0>>, <<-1, 0, 0>>, <<0, 0, 1>>, <<0, 0, -1>>}

NoShape == [fn |-> "none", size |-> 0, args |-> << >>, curves |-> << >>]

create_shape_cross(size) ==
    LET s1 == Multiply(size, One \div 2)
        s2 == size
    IN << <<0, -s1, s1>>, <<0, -s1, s2>>, <<0, s1, s2>>, <<0, s1, s1>>,
          <<0, s2, s1>>, <<0, s2, -s1>>, <<0, s1, -s1>>, <<0, s1, -s2>>,
          <<0, -s1, -s2>>, <<0, -s1, -s1>>, <<0, -s2, -s1>>, <<0, -s2, s1>>,
          <<0, -s1, s1>> >>

\* shape1.rotateZ / rotateX set to an angle and frozen by makeIdentity: the
\* points are turned.
Turned(pt, axis, angle) ==
    CASE axis = "z" /\ angle = 90 -> <<-pt[2], pt[1], pt[3]>>
      [] axis = "z" /\ angle = -90 -> <<pt[2], -pt[1], pt[3]>>
      [] axis = "x" /\ angle = 180 -> <<pt[1], -pt[2], -pt[3]>>
      [] axis = "x" /\ angle = 90 -> <<pt[1], -pt[3], pt[2]>>
      [] axis = "x" /\ angle = -90 -> <<pt[1], pt[3], -pt[2]>>
      [] OTHER -> pt

\* "Apply normal parameter" (lines 72-90).
ApplyNormal(curves, normal) ==
    LET axis == IF normal[1] # 0 THEN "z" ELSE "x"
        angle == CASE normal[1] # 0 -> (IF normal[1] < 0 THEN 90 ELSE -90)
                   [] normal[2] # 0 -> (IF normal[2] < 0 THEN 180 ELSE 0)
                   [] normal[3] # 0 -> (IF normal[3] < 0 THEN -90 ELSE 90)
                   [] OTHER -> 0
    IN [c \in 1..Len(curves) |->
           [i \in 1..Len(curves[c]) |-> Turned(curves[c][i], axis, angle)]]

\* The three curves of the needle for a resolved length and radius.
NeedleCurves(length, radius) ==
    LET radius_mid == Multiply(radius, (3 * One) \div 4)
        y_circle_mid_max == length + radius_mid
        y_circle_mid_min == length - radius_mid
        y_circle_min == length - radius
        y_circle_max == length + radius
        xz_circle_rad == radius
        xz_circle_mid_rad == Multiply(xz_circle_rad, (3 * One) \div 4)
    IN << << <<0, 0, 0>>, <<0, y_circle_min, 0>> >>,
          << <<0, y_circle_max, 0>>, <<0, y_circle_max, 0>>,
             <<xz_circle_mid_rad, y_circle_mid_max, 0>>, <<xz_circle_rad, length, 0>>,
             <<xz_circle_mid_rad, y_circle_mid_min, 0>>, <<0, y_circle_min, 0>>,
             <<-xz_circle_mid_rad, y_circle_mid_min, 0>>, <<-xz_circle_rad, length, 0>>,
             <<-xz_circle_mid_rad, y_circle_mid_max, 0>>, <<0, y_circle_max, 0>>,
             <<xz_circle_mid_rad, y_circle_mid_max, 0>> >>,
          << <<-xz_circle_mid_rad, length, -xz_circle_mid_rad>>, <<-xz_circle_rad, length, 0>>,
             <<-xz_circle_mid_rad, length, xz_circle_mid_rad>>, <<0, length, xz_circle_rad>>,
             <<xz_circle_mid_rad, length, xz_circle_mid_rad>>, <<xz_circle_rad, length, 0>>,
             <<xz_circle_mid_rad, length, -xz_circle_mid_rad>>, <<0, length, -xz_circle_rad>>,
             <<-xz_circle_mid_rad, length, -xz_circle_mid_rad>>, <<-xz_circle_rad, length, 0>>,
             <<-xz_circle_rad, length, 0>> >> >>

\* Faulty variant: the default length is the size itself.
NeedleLengthIsSize(size, length, radius, normal) ==
    LET l == IF length = NoArg THEN size ELSE length
        r == IF radius = NoArg THEN Multiply(size, One \div 4) ELSE radius
    IN ApplyNormal(NeedleCurves(l, r), normal)

create_shape_needle(size, length, radius, normal) ==
    LET l == IF length = NoArg THEN Multiply(size, 4 * One) ELSE length
        r == IF radius = NoArg THEN Multiply(size, One \div 4) ELSE radius
    IN ApplyNormal(NeedleCurves(l, r), normal)

(***************************************************************************)
(* The IK swivel control (CtrlIkSwivel), in its two generations:           *)
(* omtk/rigging/autorig/rigIK.py and rigging/AutoRig/rigIK.py.  RigCtrl,   *)
(* their base class, is not in the sources: its build gives the control    *)
(* node, a circle of radius size, and an offset group above it.            *)
(***************************************************************************)
MaxCtrlHalves == 12   \* the control is built with sizes 0.5 .. MaxCtrlHalves/2

MaxTargets == 4       \* the nodes of the scene a line can be aimed at

CtrlSizes == {k * (One \div 2) : k \in 1..MaxCtrlHalves}

\* What is passed as _oLineTarget: a boolean (False is the default) or a node.
NodeTargets == {[kind |-> "node", val |-> FALSE, id |-> n] : n \in 1..MaxTargets}
BoolTargets == {[kind |-> "bool", val |-> b, id |-> NoneVal] : b \in BOOLEAN}
NoTarget == [kind |-> "bool", val |-> FALSE, id |-> NoneVal]

NoSwivel == [gen |-> "none"]

NoLine == [made |-> FALSE, parent |-> "none", constrainedTo |-> NoTarget]

RigCtrlBuild(size) ==
    [gen |-> "base", target |-> NoTarget, radius |-> size, degree |-> 3,
     sections |-> 8, line |-> NoLine, ret |-> "node"]

\* The square look of the swivel: half the radius, degree 1, 4 sections.
SwivelMake(c) ==
    [c EXCEPT !.radius = Multiply(@, One \div 2), !.degree = 1, !.sections = 4]

\* pointConstraint(target, transform): raises when target is not a node.
PointConstraint(c, target) ==
    IF target.kind = "node"
    THEN [c EXCEPT !.line.constrainedTo = target]
    ELSE [c EXCEPT !.ret = "Exception"]

\* "Create line": the annotation, under the offset, constrained to the target.
CreateLine(c, target) ==
    PointConstraint([c EXCEPT !.line.made = TRUE, !.line.parent = "offset"], target)

\* The test guarding "Create line" in the current generation.
LineWanted(target) == target.kind = "bool" /\ target.val

\* CtrlIkSwivel.build (current generation).
CtrlIkSwivelBuild(target, size) ==
    LET c == [SwivelMake(RigCtrlBuild(size)) EXCEPT !.gen = "current", !.target = target]
    IN IF LineWanted(target) THEN CreateLine(c, target) ELSE c

\* CtrlIkSwivel.__init__ (legacy generation): the line is always made.
CtrlIkSwivelInit(target, size) ==
    CreateLine([SwivelMake(RigCtrlBuild(size)) EXCEPT !.gen = "legacy", !.target = target],
               target)

(***************************************************************************)
(* AbstractAvar.create_surface (omtk/modules/rigFaceAvar.py): the wrapper  *)
(* group of the surface is placed and scaled from the module's joints, of  *)
(* which only the world X matters to the scale.                            *)
(***************************************************************************)
MaxSurfaceJnts == 3   \* the module has 0 .. MaxSurfaceJnts joints
MaxSurfaceX == 2      \* at world X -MaxSurfaceX .. MaxSurfaceX

JointXs == {k * One : k \in -MaxSurfaceX..MaxSurfaceX}

RECURSIVE SeqsUpTo(_, _)
SeqsUpTo(S, n) ==
    IF n = 0 THEN {<< >>}
    ELSE LET shorter == SeqsUpTo(S, n - 1)
         IN shorter \cup {Append(q, x) : q \in shorter, x \in S}

JointLists == SeqsUpTo(JointXs, MaxSurfaceJnts)

\* The default arguments of create_surface.
epsilon == One \div 1000
default_scale == One

NoSurface == [ret |-> "none"]

\* pos after the first i joints: "pos += jnt.getTranslation(space='world')".
RECURSIVE PosAfter(_, _)
PosAfter(jnts, i) == IF i = 0 THEN 0 ELSE PosAfter(jnts, i - 1) + jnts[i]

SetMin(S) == CHOOSE x \in S : \A y \in S : x <= y
SetMax(S) == CHOOSE x \in S : \A y \in S : x >= y

\* "Try to guess the scale" (lines 318-321).
GuessedLength(jnts, length_x) ==
    IF Len(jnts) <= 1 \/ length_x < epsilon THEN default_scale ELSE length_x

\* create_surface, from "Try to guess the desired position" on: min_x and
\* max_x are taken from pos, which accumulates over the loop; without joint
\* the division by len(self.jnts) and the subtraction of None raise.
create_surface(jnts) ==
    IF Len(jnts) = 0
    THEN [ret |-> "Exception", jnts |-> jnts, tx |-> 0,
          scaleX |-> One, scaleY |-> One, scaleZ |-> One]
    ELSE LET seen == {PosAfter(jnts, i) : i \in 1..Len(jnts)}
             min_x == SetMin(seen)
             max_x == SetMax(seen)
             length_x == GuessedLength(jnts, max_x - min_x)
         IN [ret |-> "plane_transform", jnts |-> jnts,
             tx |-> PosAfter(jnts, Len(jnts)) \div Len(jnts),
             scaleX |-> length_x, scaleY |-> Multiply(length_x, One \div 2),
             scaleZ |-> length_x]

(***************************************************************************)
(* The multipliers of an AvarFollicle (omtk/modules/rigFaceAvar.py): the   *)
(* values the object stores, the three attributes build_stack creates on   *)
(* the rig group from them, and the handles the object keeps on these.     *)
(* The rig group, with its attributes, goes with the base unbuild.         *)
(***************************************************************************)
multiplier_fb == One \div 10

Coefficients == {"lr", "ud", "fb"}

\* The values a rigger gives a multiplier attribute.
MultiplierValues == {One \div 10, One \div 4, One \div 2}

NoAttribute == [exists |-> FALSE, value |-> 0]

\* AbstractAvar.__init__ and AvarFollicle.__init__
AvarFollicleInit ==
    [built |-> FALSE,
     multiplier |-> [lr |-> multiplier_lr, ud |-> multiplier_ud, fb |-> multiplier_fb],
     handle |-> [k \in Coefficients |-> FALSE],
     attr |-> [k \in Coefficients |-> NoAttribute]]

\* build_stack, lines 855-860: addAttr with the stored value as default.
AddMultiplierAttrs(f) ==
    [f EXCEPT !.attr = [k \in Coefficients |-> [exists |-> TRUE, value |-> f.multiplier[k]]],
              !.handle = [k \in Coefficients |-> TRUE]]

AvarFollicleBuild(f) == [AddMultiplierAttrs(f) EXCEPT !.built = TRUE]

\* Faulty variant: nothing is captured.
HoldNothing(f) == f

_hold_uv_multiplier(f) ==
    [f EXCEPT !.multiplier =
        [k \in Coefficients |->
            IF f.handle[k] /\ f.attr[k].exists THEN f.attr[k].value ELSE @[k]]]

\* AvarFollicle.unbuild: the capture, then the unbuild of the base classes.
AvarFollicleUnbuild(f) ==
    [_hold_uv_multiplier(f) EXCEPT !.attr = [k \in Coefficients |-> NoAttribute],
                                   !.built = FALSE]

(***************************************************************************)
(* The rig's life: modules are added, the rig is built and unbuilt, the    *)
(* animator sets the master scale (an attribute edit, not a call), a       *)
(* rigger connects a curve to the joint root's scale.                      *)
(***************************************************************************)
Commit(w, op) ==
    /\ children' = w.children
    /\ rig' = w.rig
    /\ mods' = w.mods
    /\ nodes' = w.nodes
    /\ attrs' = w.attrs
    /\ conns' = w.conns
    /\ spine' = w.spine
    /\ log' = w.log
    /\ lastOp' = op
    /\ lastRet' = w.ret

\* The scene before any rig: a driven-key curve, a blendWeighted node fed by
\* it, a rootless joint and a rootless mesh.
SceneNodes ==
    (1 :> [type |-> "animCurve", parent |-> NoneVal])
    @@ (2 :> [type |-> "blendWeighted", parent |-> NoneVal])
    @@ (3 :> [type |-> "joint", parent |-> NoneVal])
    @@ (4 :> [type |-> "mesh", parent |-> NoneVal])

SceneConns == {<<Plug(1, "output"), Plug(2, "input0")>>}

NewModule(k, s) ==
    [kind |-> k, exposesScale |-> s, grp_anm |-> NoneVal, grp_rig |-> NoneVal,
     globalScale |-> FALSE, avar_network |-> NoneVal, attr_set |-> FALSE,
     root |-> FALSE, parent |-> FALSE, model_ctrl |-> FALSE]

\* The objects before any call: a rig without module, the module objects,
\* the spine object.
Objects(chain) ==
    /\ children = [none |-> FALSE, list |-> <<>>]
    /\ rig = RigInit
    /\ mods = [m \in Modules \cup {SpineModule} |->
                   NewModule(ModuleKind(m), ExposesScale(m))]
    /\ spine = DpSpineInit(chain)
    /\ log = <<>>
    /\ lastOp = "init"
    /\ lastRet = "None"
    /\ ik = SoftIkNodeBuilt
    /\ legacy = LegacyIkInit
    /\ registry = RegistryInit
    /\ ser = NoScene
    /\ shape = NoShape
    /\ swivel = NoSwivel
    /\ surface = NoSurface
    /\ mul = AvarFollicleInit

Init ==
    /\ Objects(<<>>)
    /\ nodes = SceneNodes
    /\ attrs = << >>
    /\ conns = SceneConns
    /\ fol = AvarFollicleBuilt(One \div 2, One \div 2)

AddModule(m) ==
    /\ children.none \/ Len(children.list) < MaxChildren
    /\ Commit(RigAddModule(World, m), "add_module")
    /\ UNCHANGED <<fol, apart>>

Build(raiseAt, partial) ==
    /\ RigIsBuilt(World) = "True" \/ Cardinality(DOMAIN nodes) <= MaxNodes
    /\ raiseAt = 0 \/ (~children.none /\ raiseAt <= Len(children.list))
    /\ raiseAt = 0 => ~partial
    /\ Commit(RigBuild(World, raiseAt, partial), "build")
    /\ UNCHANGED <<fol, apart>>

Unbuild ==
    /\ Commit(RigUnbuild(World), "unbuild")
    /\ UNCHANGED <<fol, apart>>

SetGlobalScale(v) ==
    /\ NodeIsBuilt(World, rig.grp_anms)
    /\ attrs' = [attrs EXCEPT ![MasterScale(World)] = v]
    /\ UNCHANGED <<children, rig, mods, nodes, conns, log, lastOp, lastRet,
                   spine, fol, apart>>

ConnectJointScale ==
    /\ IsValidPyNode(World, rig.grp_jnts)
    /\ Commit(ConnectAttrForce(World, Plug(1, "output"), Plug(rig.grp_jnts, "scaleX")),
              "connect")
    /\ UNCHANGED <<fol, apart>>

Next ==
    \/ \E m \in Modules : AddModule(m)
    \/ \E raiseAt \in 0..MaxChildren, partial \in BOOLEAN : Build(raiseAt, partial)
    \/ Unbuild
    \/ \E v \in ScaleValues : SetGlobalScale(v)
    \/ ConnectJointScale

Spec == Init /\ [][Next]_vars

\* A step that is a call of Rig.build(), of Rig.unbuild().
BuildStep == \E raiseAt \in 0..MaxChildren, partial \in BOOLEAN : Build(raiseAt, partial)
UnbuildStep == Unbuild

(***************************************************************************)
(* The spine's life: a DpSpine over a chain of 0 to MaxJoints joints of a  *)
(* scene of MaxJoints joints is built and unbuilt.  (What build() does on  *)
(* a spine that is built already is up to the base classes, which the      *)
(* sources do not have: build() is called on a spine that is not built.)   *)
(***************************************************************************)
Injective(c) == \A i, j \in DOMAIN c : c[i] = c[j] => i = j

Chains ==
    {c \in UNION {[1..n -> 1..MaxJoints] : n \in 0..MaxJoints} : Injective(c)}

SpineSceneNodes == [j \in 1..MaxJoints |-> [type |-> "joint", parent |-> j - 1]]

InitSpine ==
    /\ \E chain \in Chains : Objects(chain)
    /\ nodes = SpineSceneNodes
    /\ attrs = << >>
    /\ conns = {}
    /\ fol = AvarFollicleBuilt(One \div 2, One \div 2)

SpineBuild ==
    /\ ~ModuleIsBuilt(World, SpineModule)
    /\ Cardinality(DOMAIN nodes) <= MaxSpineNodes
    /\ Commit(DpSpineBuild(World), "spine_build")
    /\ UNCHANGED <<fol, apart>>

SpineUnbuild ==
    /\ Commit(DpSpineUnbuild(World), "spine_unbuild")
    /\ UNCHANGED <<fol, apart>>

\* A child module asks where to attach under joint p.
GetParent(p) ==
    /\ Commit(DpSpineGetParent(World, p), "get_parent")
    /\ UNCHANGED <<fol, apart>>

NextSpine ==
    \/ SpineBuild
    \/ SpineUnbuild
    \/ \E p \in 1..MaxJoints : GetParent(p)

SpecSpine == InitSpine /\ [][NextSpine]_vars

(***************************************************************************)
(* The follicle avar at work: the animator sets avar_lr and avar_ud, and   *)
(* the network follows.                                                    *)
(***************************************************************************)
InitOob ==
    /\ Objects(<<>>)
    /\ nodes = SceneNodes
    /\ attrs = << >>
    /\ conns = SceneConns
    /\ fol \in {AvarFollicleBuilt(bu, bv) : bu \in BaseValues, bv \in BaseValues}

SetAvarLr(v) ==
    /\ fol' = EvaluateFollicle([fol EXCEPT !.avar_lr = v])
    /\ UNCHANGED <<children, rig, mods, nodes, attrs, conns, log, lastOp, lastRet,
                   spine, apart>>

SetAvarUd(v) ==
    /\ fol' = EvaluateFollicle([fol EXCEPT !.avar_ud = v])
    /\ UNCHANGED <<children, rig, mods, nodes, attrs, conns, log, lastOp, lastRet,
                   spine, apart>>

NextOob ==
    \/ \E v \in AvarValues : SetAvarLr(v)
    \/ \E v \in AvarValues : SetAvarUd(v)

SpecOob == InitOob /\ [][NextOob]_vars

(***************************************************************************)
(* One avar module on its own: it is built and unbuilt, and between the    *)
(* two a rigger connects nodes of the scene to its avars, in and out, and  *)
(* feeds or starves the blendWeighted node.  (build() is called on a       *)
(* module that is not built, as for the spine.)                            *)
(***************************************************************************)
TheAvar == "avar"

ProbedAvars == {"avar_ud", "avar_scale_fb"}

\* The curve, the blendWeighted node, the joint: what can drive an avar.
ExternalSources == {Plug(1, "output"), Plug(2, "output"), Plug(3, "translateX")}

\* What an avar can drive: the second input of the blendWeighted node, the mesh.
ExternalTargets == {Plug(2, "input1"), Plug(4, "visibility")}

AvarBuild ==
    /\ ~ModuleIsBuilt(World, TheAvar)
    /\ Commit(ChildBuild(World, TheAvar), "avar_build")
    /\ UNCHANGED <<fol, apart>>

\* unbuild(); the controller model, when there is one, may raise.
AvarUnbuild(raises) ==
    /\ raises => mods[TheAvar].model_ctrl
    /\ Commit(AvarSimpleUnbuild(World, TheAvar, raises), "avar_unbuild")
    /\ UNCHANGED <<fol, apart>>

AvarUnbuildStep == \E raises \in BOOLEAN : AvarUnbuild(raises)

\* create_ctrl() on the built avar (by the module that owns the avar).
CreateCtrl ==
    /\ IsValidPyNode(World, mods[TheAvar].grp_rig)
    /\ NodesOfType(World, "ctrlModel") = {}
    /\ Commit([create_ctrl(World, TheAvar) EXCEPT !.log = log], lastOp)
    /\ UNCHANGED <<fol, apart>>

\* A rigger deletes the rig group of the built avar.
DeleteRigGroup ==
    /\ IsValidPyNode(World, mods[TheAvar].grp_rig)
    /\ nodes' = DeleteNodes(World, {mods[TheAvar].grp_rig}).nodes
    /\ attrs' = DeleteNodes(World, {mods[TheAvar].grp_rig}).attrs
    /\ conns' = DeleteNodes(World, {mods[TheAvar].grp_rig}).conns
    /\ UNCHANGED <<children, rig, mods, log, lastOp, lastRet, spine, fol, apart>>

ConnectAvarIn(src, name) ==
    /\ IsValidPyNode(World, mods[TheAvar].grp_rig)
    /\ conns' = ConnectAttrForce(World, src, Plug(mods[TheAvar].grp_rig, name)).conns
    /\ UNCHANGED <<children, rig, mods, nodes, attrs, log, lastOp, lastRet,
                   spine, fol, apart>>

ConnectAvarOut(name, dst) ==
    /\ IsValidPyNode(World, mods[TheAvar].grp_rig)
    /\ conns' = ConnectAttrForce(World, Plug(mods[TheAvar].grp_rig, name), dst).conns
    /\ UNCHANGED <<children, rig, mods, nodes, attrs, log, lastOp, lastRet,
                   spine, fol, apart>>

\* The curve is connected to, disconnected from the blendWeighted node.
ToggleBlendCurve ==
    /\ conns' = IF SceneConns \subseteq conns THEN conns \ SceneConns
                ELSE conns \cup SceneConns
    /\ UNCHANGED <<children, rig, mods, nodes, attrs, log, lastOp, lastRet,
                   spine, fol, apart>>

NextAvar ==
    \/ AvarBuild
    \/ \E raises \in BOOLEAN : AvarUnbuild(raises)
    \/ CreateCtrl
    \/ DeleteRigGroup
    \/ \E src \in ExternalSources, name \in ProbedAvars : ConnectAvarIn(src, name)
    \/ \E name \in ProbedAvars, dst \in ExternalTargets : ConnectAvarOut(name, dst)
    \/ ToggleBlendCurve

SpecAvar == Init /\ [][NextAvar]_vars

(***************************************************************************)
(* Views of the state the properties are stated on.                        *)
(***************************************************************************)
\* The node types Rig.build creates directly, and the avar backup.
ScaffoldTypes == {"anm_root", "rig_root", "geo_root"}
LayerTypes == {"layer_anm", "layer_rig", "layer_geo"}

LiveOfTypes(T) == {n \in DOMAIN nodes : nodes[n].type \in T}

ChildSet == IF children.none THEN {} ELSE {children.list[i] : i \in 1..Len(children.list)}

IsBuiltNow == RigIsBuilt(World)

SomeChildBuilt == \E m \in ChildSet : ChildIsBuilt(World, m)

RigLayers == {rig.layer_anm, rig.layer_rig, rig.layer_geo} \ {NoneVal}

LogEvents(l, ev) == {i \in 1..Len(l) : l[i].ev = ev}

\* The handles of the Rig object that name a node.
RigHandles ==
    {rig.grp_jnts, rig.grp_anms.node, rig.grp_rigs.node, rig.grp_geos.node,
     rig.layer_anm, rig.layer_geo, rig.layer_rig} \ {NoneVal}

(***************************************************************************)
(* C1. Rig.build() called right after a successful Rig.build(), with no    *)
(* unbuild() in between, returns False and leaves the scene unchanged,     *)
(* whatever the number of child modules.                                   *)
(***************************************************************************)
SecondBuildRefused ==
    /\ lastRet' = "False"
    /\ nodes' = nodes /\ attrs' = attrs /\ conns' = conns
    /\ rig' = rig /\ mods' = mods

C1_SecondBuildAlwaysRefused ==
    [][(lastOp = "build" /\ lastRet = "True" /\ BuildStep)
          => SecondBuildRefused]_vars

\* C1, amended: the same for every rig that has at least one child module
\* (an empty rig never reports built, and its second build() runs again).
C1_SecondBuildRefusedWithChildren ==
    [][(lastOp = "build" /\ lastRet = "True" /\ BuildStep
        /\ ~children.none /\ Len(children.list) > 0)
          => SecondBuildRefused]_vars

C1_Witness ==
    /\ lastOp = "build" /\ lastRet = "False" /\ log = <<>>
    /\ Len(children.list) > 0
    /\ Cardinality(LiveOfTypes(LayerTypes)) = 3

AvarChildren == {m \in ChildSet : mods[m].kind = "Avar"}

C3_IsBuiltIffChildBuilt ==
    IsBuiltNow = (IF SomeChildBuilt THEN "True" ELSE "False")

(***************************************************************************)
(* C4. After a successful Rig.build(), every child that exposes            *)
(* globalScale, and the joint root's scaleX, scaleY and scaleZ, are        *)
(* connected from the master control's globalScale and read its value,     *)
(* whatever was connected before.                                          *)
(***************************************************************************)
ScaleTargets ==
    {Plug(mods[m].grp_rig, "globalScale") : m \in {x \in ChildSet : mods[x].globalScale}}
    \cup {Plug(rig.grp_jnts, "scaleX"), Plug(rig.grp_jnts, "scaleY"),
          Plug(rig.grp_jnts, "scaleZ")}

C4_GlobalScaleDrivesChildren ==
    (lastOp = "build" /\ lastRet = "True") =>
        \A p \in ScaleTargets :
            /\ Inputs(World, p) = {MasterScale(World)}
            /\ ReadAttr(World, p) = attrs[MasterScale(World)]

C4_Witness ==
    /\ lastOp = "build" /\ lastRet = "True"
    /\ \E m \in ChildSet : mods[m].globalScale
    /\ attrs[MasterScale(World)] = 3
    /\ \A p \in ScaleTargets : ReadAttr(World, p) = 3

(***************************************************************************)
(* C5. When the build of the k-th child raises during Rig.build(), the     *)
(* exception leaves Rig.build(), the children before k stay built, the     *)
(* children after k are not asked to build, no post-build step runs and    *)
(* nothing is rolled back.                                                 *)
(***************************************************************************)
PostBuildEvents ==
    {"create_anm_root", "create_constraint", "create_rig_root", "create_geo_root",
     "create_layer_anm", "create_layer_rig", "create_layer_geo"}

C5_ChildFailureAborts ==
    [][\A k \in 1..MaxChildren :
          (IsBuiltNow = "False" /\ \E partial \in BOOLEAN : Build(k, partial))
          => /\ lastRet' = "Exception"
             /\ {log'[i].arg : i \in LogEvents(log', "build_child")} = 1..k
             /\ \A i \in 1..Len(log') : log'[i].ev \notin PostBuildEvents
             /\ \A j \in 1..(k - 1) : ChildIsBuilt(World, children.list[j])'
             /\ LiveOfTypes(ScaffoldTypes \cup LayerTypes \cup {"constraint"})'
                   = LiveOfTypes(ScaffoldTypes \cup LayerTypes \cup {"constraint"})
             /\ \A n \in DOMAIN nodes : nodes[n].type # "avarBackup" => n \in DOMAIN nodes'
       ]_vars

C5_Witness ==
    /\ lastOp = "build" /\ lastRet = "Exception"
    /\ \E i \in 1..Len(log) : log[i].ev = "raise" /\ log[i].arg = 2
    /\ ChildIsBuilt(World, children.list[1])
    /\ ~ChildIsBuilt(World, children.list[2])
    /\ LiveOfTypes(ScaffoldTypes \cup LayerTypes) = {}

(***************************************************************************)
(* C6. Rig.unbuild() returns True from every state it is called in; it     *)
(* unbuilds, in list order, exactly the children that report built;        *)
(* afterwards the three display layers are deleted and no attribute of     *)
(* the Rig holds a handle to a node that no longer exists.                 *)
(***************************************************************************)
BuiltIndexes ==
    IF children.none THEN {}
    ELSE {i \in 1..Len(children.list) :
             /\ ChildIsBuilt(World, children.list[i])
             /\ \A j \in 1..(i - 1) : children.list[j] # children.list[i]}

Increasing(l) == \A i, j \in 1..Len(l) : i < j => l[i].arg < l[j].arg

C6_UnbuildAlwaysSucceeds ==
    [][UnbuildStep
          => /\ lastRet' = "True"
             /\ {log'[i].arg : i \in LogEvents(log', "unbuild_child")} = BuiltIndexes
             /\ Increasing(log')
             /\ RigLayers \cap DOMAIN nodes' = {}
             /\ RigHandles' \subseteq DOMAIN nodes']_vars

(***************************************************************************)
(* C7.  DpSpine.build() on a chain whose length is not 3 raises the        *)
(* configuration error with the scene, the module and the spine object as  *)
(* they were and without the base module build having run; on a chain of   *)
(* exactly 3 joints that error is not raised and the base build runs.      *)
(***************************************************************************)
C7_ChainLengthChecked ==
    [][SpineBuild =>
          IF Len(spine.chain) # 3
          THEN /\ lastRet' = "Exception"
               /\ nodes' = nodes /\ attrs' = attrs /\ conns' = conns
               /\ mods' = mods /\ spine' = spine
               /\ log' = <<>>
          ELSE /\ lastRet' # "Exception"
               /\ LogEvents(log', "module_build") # {}]_vars

C7_Witness ==
    /\ lastOp = "spine_build" /\ lastRet = "Exception"
    /\ Len(spine.chain) = 4
    /\ nodes = SpineSceneNodes
    /\ ~ModuleIsBuilt(World, SpineModule)

(***************************************************************************)
(* C8.  As claimed: when both surface parameters of an AvarFollicle are    *)
(* out of [0, 1] at the same time, the oobLayer translation is zero.       *)
(***************************************************************************)
UOut == fol.surfaceU < 0 \/ fol.surfaceU > One
VOut == fol.surfaceV < 0 \/ fol.surfaceV > One

\* By how much a parameter is past the border it left.
Overshoot(p) == p - Clamp(p, 0, One)

AvarHolder ==
    IF IsValidPyNode(World, mods[TheAvar].grp_rig)
    THEN mods[TheAvar].grp_rig
    ELSE mods[TheAvar].avar_network

BearsDrivenKey(n) ==
    \/ nodes[n].type = "animCurve"
    \/ /\ nodes[n].type = "blendWeighted"
       /\ \E c \in conns : c[2][1] = n /\ nodes[c[1][1]].type = "animCurve"

IsExternal(n) == n \in DOMAIN SceneNodes /\ BearsDrivenKey(n)

\* <<direction, external plug, avar name>> for every such connection.
ExternalAvarConns ==
    {<<"in", c[1], c[2][2]>> :
        c \in {d \in conns : d[2][1] = AvarHolder /\ d[2][2] \in ProbedAvars
                             /\ IsExternal(d[1][1])}}
    \cup {<<"out", c[2], c[1][2]>> :
        c \in {d \in conns : d[1][1] = AvarHolder /\ d[1][2] \in ProbedAvars
                             /\ IsExternal(d[2][1])}}

C10_ExternalConnectionsSurvive ==
    [][(AvarUnbuildStep \/ AvarBuild) =>
          /\ ExternalAvarConns' = ExternalAvarConns
          /\ AvarBuild => /\ IsValidPyNode(World, mods[TheAvar].grp_rig)'
                          /\ mods'[TheAvar].avar_network = NoneVal
                          /\ NodesOfType(World, "avarBackup")' = {}]_vars

C10_Witness ==
    /\ lastOp = "avar_build" /\ lastRet = "True"
    /\ \E i \in LogEvents(log, "fetch_avars") : log[i].arg = 3
    /\ <<"in", Plug(2, "output"), "avar_ud">> \in ExternalAvarConns
    /\ <<"in", Plug(1, "output"), "avar_scale_fb">> \in ExternalAvarConns
    /\ <<"out", Plug(2, "input1"), "avar_scale_fb">> \in ExternalAvarConns
    /\ AvarHolder = mods[TheAvar].grp_rig

(***************************************************************************)
(* The soft-IK node on its own: the control is moved, the animator sets    *)
(* the soft ratio and the stretch, the rigger the chain length.            *)
(***************************************************************************)
\* What the components exercised on their own never touch.
rigFrame == <<children, rig, mods, nodes, attrs, conns, log, lastOp, lastRet,
              spine, fol>>

MoveIkCtrl(d, undef) ==
    /\ ik' = EvaluateSoftIk([ik EXCEPT !.inDistance = d], undef)
    /\ UNCHANGED <<rigFrame, tools, legacy, registry, ser>>

SetSoftIkRatio(r, undef) ==
    /\ ik' = EvaluateSoftIk([ik EXCEPT !.inRatio = r], undef)
    /\ UNCHANGED <<rigFrame, tools, legacy, registry, ser>>

SetIkStretch(t, undef) ==
    /\ ik' = EvaluateSoftIk([ik EXCEPT !.inStretch = t], undef)
    /\ UNCHANGED <<rigFrame, tools, legacy, registry, ser>>

SetIkChainLength(l, undef) ==
    /\ ik' = EvaluateSoftIk([ik EXCEPT !.inChainLength = l], undef)
    /\ UNCHANGED <<rigFrame, tools, legacy, registry, ser>>

NextSoftIk ==
    \/ \E d \in IkDistances, u \in Undefined : MoveIkCtrl(d, u)
    \/ \E r \in IkRatios, u \in Undefined : SetSoftIkRatio(r, u)
    \/ \E t \in {0, One}, u \in Undefined : SetIkStretch(t, u)
    \/ \E l \in IkChainLengths, u \in Undefined : SetIkChainLength(l, u)

SpecSoftIk == Init /\ [][NextSoftIk]_vars

(***************************************************************************)
(* C11.  With inStretch = 0 and the control at a distance D > 0 that is at *)
(* or below the safe distance, outRatio and outStretch are exactly 1; an   *)
(* outRatio below 1 is found only where delta > 0; delta is exactly 0      *)
(* when the soft distance is 0.                                            *)
(***************************************************************************)
C11_NoSofteningBelowSafe ==
    /\ (ik.inStretch = 0 /\ ik.inDistance > 0 /\ ik.inDistance <= distanceSafe(ik))
          => (ik.delta <= 0 /\ ik.outRatio = One /\ ik.outStretch = One)
    /\ (ik.inStretch = 0 /\ ik.inDistance > 0 /\ ik.outRatio < One) => ik.delta > 0
    /\ distanceSoft(ik) = 0 => ik.delta = 0

C11_Witness ==
    /\ ik.inStretch = 0 /\ ik.inChainLength = 10 * One /\ ik.inRatio = One \div 10
    /\ ik.inDistance = 9 * One
    /\ ik.delta = 0 /\ ik.outRatio = One /\ ik.outStretch = One

(***************************************************************************)
(* The legacy IK part on its own: it is built once, over one of the        *)
(* chains, with or without stretch, and then its control is moved.         *)
(***************************************************************************)
BuildLegacyIk(rest, bStretch) ==
    /\ ~legacy.built
    /\ legacy' = LegacyIkBuild([legacy EXCEPT !.bStretch = bStretch], rest)
    /\ UNCHANGED <<rigFrame, tools, ik, registry, ser>>

MoveLegacyCtrl(d) ==
    /\ legacy.built
    /\ legacy' = EvaluateLegacyIk([legacy EXCEPT !.distance = d])
    /\ UNCHANGED <<rigFrame, tools, ik, registry, ser>>

NextLegacyIk ==
    \/ \E rest \in LegacyChains, b \in BOOLEAN : BuildLegacyIk(rest, b)
    \/ \E d \in LegacyDistances : MoveLegacyCtrl(d)

SpecLegacyIk == Init /\ [][NextLegacyIk]_vars

(***************************************************************************)
(* C12.  With bStretch true and a chain of length L, the factor applied to *)
(* the joints' rest translations is max(1, D/L) for every distance D of    *)
(* the control: 1 when D <= L, D/L when D > L, never below 1.              *)
(***************************************************************************)
C12_StretchIsClampedQuotient ==
    (legacy.built /\ legacy.bStretch) =>
        LET D == legacy.distance
            L == legacy.fChainLength
        IN /\ L = SumLengths(legacy.rest, 1)
           /\ legacy.attStretch >= One
           /\ D <= L => legacy.attStretch = One
           /\ D > L => legacy.attStretch = (D * One) \div L
           /\ \A i \in 1..Len(legacy.rest) :
                 legacy.t[i] = (legacy.rest[i] * legacy.attStretch) \div One

C12_Witness ==
    /\ legacy.built /\ legacy.bStretch
    /\ legacy.rest = <<2 * One, 3 * One>>
    /\ legacy.distance = (15 * One) \div 2
    /\ legacy.attStretch = (3 * One) \div 2
    /\ legacy.t = <<3 * One, (9 * One) \div 2>>

(***************************************************************************)
(* The registry on its own: create() is called with registered and         *)
(* unregistered names.                                                     *)
(***************************************************************************)
Create(cls_name, args) ==
    /\ Len(registry.made) < MaxInstances
    /\ registry' = create(registry, cls_name, args)
    /\ UNCHANGED <<rigFrame, tools, ik, legacy, ser>>

NextRegistry == \E cls_name \in RequestedNames, args \in ArgLists : Create(cls_name, args)

SpecRegistry == Init /\ [][NextRegistry]_vars

(***************************************************************************)
(* C13.  create() with a name that is not registered raises an error whose *)
(* message contains the name asked for, and no class is instantiated.      *)
(***************************************************************************)
C13_UnknownNameRaises ==
    [][\A cls_name \in RequestedNames \ RegisteredNames :
          (\E args \in ArgLists : Create(cls_name, args))
          => /\ registry'.ret.kind = "Exception"
             /\ \E i \in 1..Len(registry'.message) : registry'.message[i] = cls_name
             /\ registry'.made = registry.made]_vars

C13_Witness ==
    /\ registry.ret.kind = "Exception"
    /\ registry.message = <<"Can't find any module named ", "Unknown">>
    /\ registry.made = << >>

(***************************************************************************)
(* C14.  create() with a registered name instantiates the class once, with *)
(* the arguments given, and returns the class itself, not the instance.    *)
(***************************************************************************)
C14_CreateReturnsClass ==
    [][\A cls_name \in RegisteredNames, args \in ArgLists :
          Create(cls_name, args)
          => /\ registry'.made = Append(registry.made, [cls |-> cls_name, args |-> args])
             /\ registry'.ret = [kind |-> "class", name |-> cls_name]]_vars

C14_Witness ==
    /\ registry.made = <<[cls |-> "DpSpine", args |-> <<"jnt_arm">>]>>
    /\ registry.ret = [kind |-> "class", name |-> "DpSpine"]

(***************************************************************************)
(* The Rig as a sequence: modules are added, inserted, replaced and        *)
(* deleted, the rig is indexed, measured and iterated.                     *)
(***************************************************************************)
Insert(i, m) ==
    /\ children.none \/ Len(children.list) < MaxSeqLen
    /\ Commit(RigInsert(World, i, m), "insert")
    /\ UNCHANGED <<fol, apart>>

GetItem(i) ==
    /\ Commit(Rig__getitem__(World, i), "getitem")
    /\ UNCHANGED <<fol, apart>>

SetItem(i, m) ==
    /\ Commit(Rig__setitem__(World, i, m), "setitem")
    /\ UNCHANGED <<fol, apart>>

DelItem(i) ==
    /\ Commit(Rig__delitem__(World, i), "delitem")
    /\ UNCHANGED <<fol, apart>>

LenOf ==
    /\ Commit(Rig__len__(World), "len")
    /\ UNCHANGED <<fol, apart>>

Iterate ==
    /\ Commit(Rig__iter__(World), "iter")
    /\ UNCHANGED <<fol, apart>>

NextSeq ==
    \/ \E i \in 0..MaxSeqLen, m \in Modules : Insert(i, m)
    \/ \E m \in Modules : AddModule(m)
    \/ \E i \in 0..(MaxSeqLen - 1) : GetItem(i)
    \/ \E i \in 0..(MaxSeqLen - 1), m \in Modules : SetItem(i, m)
    \/ \E i \in 0..(MaxSeqLen - 1) : DelItem(i)
    \/ LenOf
    \/ Iterate

SpecSeq == Init /\ [][NextSeq]_vars

(***************************************************************************)
(* C15.  The Rig is a sequence over its children: rig[i] is the i-th       *)
(* child for every valid i, len(rig) is the number of children, iteration  *)
(* yields the children in list order, insert(i, m) puts m at index i,      *)
(* keeps the order of the others and stamps m's parent back-reference.     *)
(***************************************************************************)
C15_RigIsSequence ==
    [][/\ \A i \in 0..(MaxSeqLen - 1) :
             (GetItem(i) /\ i < Len(children.list)) => lastRet' = children.list[i + 1]
       /\ LenOf => lastRet' = Len(children.list)
       /\ Iterate => lastRet' = children.list
       /\ \A i \in 0..MaxSeqLen, m \in Modules :
             (Insert(i, m) /\ i <= Len(children.list))
             => /\ Len(children'.list) = Len(children.list) + 1
                /\ children'.list[i + 1] = m
                /\ \A j \in 1..i : children'.list[j] = children.list[j]
                /\ \A j \in (i + 1)..Len(children.list) :
                      children'.list[j + 1] = children.list[j]
                /\ mods'[m].parent]_vars

(***************************************************************************)
(* C16.  add_module(m) appends m as the last child and sets m's            *)
(* back-reference to the rig; it does not de-duplicate: a module added     *)
(* twice is twice in children, and the next build() asks it to build       *)
(* twice.                                                                  *)
(***************************************************************************)
C16_AddModuleAppends ==
    [][/\ \A m \in Modules :
             AddModule(m) => /\ ~children'.none
                             /\ children'.list = Append(children.list, m)
                             /\ mods'[m].root
       /\ (IsBuiltNow = "False" /\ Build(0, FALSE))
             => {log'[i].arg : i \in LogEvents(log', "build_child")}
                   = 1..Len(children.list)]_vars

(***************************************************************************)
(* C17.  After AvarFollicle is built its dag stack holds exactly the       *)
(* layers pos, follicleLayer, oobLayer, fbLayer, folRot, rotLayer, in that *)
(* order, each appended once, and no layer was removed or reordered        *)
(* during the build.                                                       *)
(***************************************************************************)
\* Every call made on the stack added one layer at its end.
AppendOnly(stack) ==
    /\ Len(stack.steps) = Len(stack.layers)
    /\ \A k \in 1..Len(stack.steps) : stack.steps[k] = SubSeq(stack.layers, 1, k)
    /\ \A i, j \in 1..Len(stack.layers) : i # j => stack.layers[i] # stack.layers[j]

C17_SixLayersFromPos ==
    /\ fol.stack.layers
          = <<"pos", "follicleLayer", "oobLayer", "fbLayer", "folRot", "rotLayer">>
    /\ AppendOnly(fol.stack)

\* C17, amended: the stack holds exactly follicleLayer, oobLayer, fbLayer,
\* folRot, rotLayer, in that order, each appended once, none removed or
\* reordered; the pos layer of AvarSimple is not in it.
C17_FiveLayersFromFollicle ==
    /\ fol.stack.layers = <<"follicleLayer", "oobLayer", "fbLayer", "folRot", "rotLayer">>
    /\ AppendOnly(fol.stack)

C17_Witness ==
    /\ Len(fol.stack.steps) = 5
    /\ fol.stack.steps[1] = <<"follicleLayer">>
    /\ fol.stack.layers[3] = "fbLayer"
    /\ fol.avar_lr # 0

(***************************************************************************)
(* C18.  After DpSpine.build() the lower, middle and upper FK controls are *)
(* parented under the lower IK control, the upper IK control and the       *)
(* lower IK control respectively, and the upper IK control under the lower *)
(* IK control.                                                             *)
(***************************************************************************)
SpineParent(field) == nodes[spine[field].node].parent

SpineIsBuilt == ModuleIsBuilt(World, SpineModule)

C18_FkParentsAsListed ==
    SpineIsBuilt =>
        /\ SpineParent("ctrl_fk_dwn") = spine.ctrl_ik_dwn.node
        /\ SpineParent("ctrl_fk_mid") = spine.ctrl_ik_upp.node
        /\ SpineParent("ctrl_fk_upp") = spine.ctrl_ik_dwn.node
        /\ SpineParent("ctrl_ik_upp") = spine.ctrl_ik_dwn.node

\* C18, amended: the lower and the middle FK control are parented under the
\* lower IK control, the upper FK control under the upper IK control, and
\* the upper IK control under the lower IK control.
C18_FkParentsAsBuilt ==
    SpineIsBuilt =>
        /\ SpineParent("ctrl_fk_dwn") = spine.ctrl_ik_dwn.node
        /\ SpineParent("ctrl_fk_mid") = spine.ctrl_ik_dwn.node
        /\ SpineParent("ctrl_fk_upp") = spine.ctrl_ik_upp.node
        /\ SpineParent("ctrl_ik_upp") = spine.ctrl_ik_dwn.node
        /\ SpineParent("ctrl_ik_dwn") = mods[SpineModule].grp_anm
        /\ spine.ctrl_ik_upp.node # spine.ctrl_ik_dwn.node

C18_Witness ==
    /\ lastOp = "spine_build" /\ SpineIsBuilt
    /\ nodes[spine.ctrl_fk_mid.node].type = "ctrl_fk"
    /\ SpineParent("ctrl_fk_mid") = spine.ctrl_ik_dwn.node
    /\ SpineParent("ctrl_fk_upp") = spine.ctrl_ik_upp.node

(***************************************************************************)
(* C19.  DpSpine.get_parent(p) gives the lower FK control when p is the    *)
(* first joint of the chain, the upper FK control when p is the last one,  *)
(* and what the base module's get_parent(p) gives otherwise; it never      *)
(* gives the raw first or last joint.                                      *)
(***************************************************************************)
C19_GetParentGivesFkCtrls ==
    [][\A p \in 1..MaxJoints :
          (GetParent(p) /\ Len(spine.chain) > 0)
          => /\ p = spine.chain[1] => lastRet' = CtrlValue(spine.ctrl_fk_dwn)
             /\ (p # spine.chain[1] /\ p = spine.chain[Len(spine.chain)])
                   => lastRet' = CtrlValue(spine.ctrl_fk_upp)
             /\ (p # spine.chain[1] /\ p # spine.chain[Len(spine.chain)])
                   => lastRet' = ModuleGetParent(World, p)
             /\ (p = spine.chain[1] \/ p = spine.chain[Len(spine.chain)])
                   => /\ lastRet'.kind \in {"ctrl", "None"}
                      /\ lastRet'.node \notin NodesOfType(World, "joint")]_vars

C19_Witness ==
    /\ lastOp = "get_parent" /\ SpineIsBuilt
    /\ Len(spine.chain) = 3
    /\ lastRet = [kind |-> "ctrl", node |-> spine.ctrl_fk_upp.node]
    /\ nodes[lastRet.node].type = "ctrl_fk"
    /\ SpineParent("ctrl_fk_upp") = spine.ctrl_ik_upp.node

(***************************************************************************)
(* The maintenance script on its own: a scene is opened, the script is     *)
(* run, any number of times.                                               *)
(***************************************************************************)
OpenScene(sc) ==
    /\ ser.nets = << >>
    /\ ser' = [nets |-> sc, ret |-> "None", calls |-> << >>]
    /\ UNCHANGED <<rigFrame, tools, ik, legacy, registry>>

Run ==
    /\ ser.nets # << >>
    /\ ser' = run(ser)
    /\ UNCHANGED <<rigFrame, tools, ik, legacy, registry>>

NextFix ==
    \/ \E sc \in Scenes : OpenScene(sc)
    \/ Run

SpecFix == Init /\ [][NextFix]_vars

(***************************************************************************)
(* C20.  After run() on a scene with one serialized Rig node, every        *)
(* serialized Module node has a 'rig' attribute that receives a connection *)
(* from that Rig node's message attribute: created where missing,          *)
(* connected where unconnected, kept unchanged where it already received a *)
(* connection; a second run() changes nothing.                             *)
(***************************************************************************)
RigNets == {k \in 1..Len(ser.nets) : ser.nets[k].cls = "Rig"}

ModuleNets == {k \in 1..Len(ser.nets) : ser.nets[k].cls = "Module"}

TheRigNet == CHOOSE k \in RigNets : TRUE

C20_EveryModuleLinkedToRig ==
    [][(Run /\ Cardinality(RigNets) = 1)
          => /\ \A k \in ModuleNets :
                   /\ ser'.nets[k].hasRig
                   /\ ser'.nets[k].rigIn = TheRigNet
                   /\ ser.nets[k].rigIn # NoneVal => ser'.nets[k].rigIn = ser.nets[k].rigIn
             /\ run(ser').nets = ser'.nets
             /\ run(ser').calls = << >>]_vars

\* C20, amended: after run() every serialized Module node has a 'rig'
\* attribute that receives a connection: the one it already received,
\* whatever its source, or else one from the Rig node's message attribute;
\* the other networks are left as they were and a second run() changes
\* nothing.
C20_ModulesLinkedUnlessAlready ==
    [][(Run /\ Cardinality(RigNets) = 1)
          => /\ ser'.ret = "None"
             /\ Len(ser'.nets) = Len(ser.nets)
             /\ \A k \in ModuleNets :
                   /\ ser'.nets[k].hasRig
                   /\ ser'.nets[k].rigIn =
                         (IF ser.nets[k].rigIn # NoneVal THEN ser.nets[k].rigIn
                          ELSE TheRigNet)
             /\ \A k \in (1..Len(ser.nets)) \ ModuleNets : ser'.nets[k] = ser.nets[k]
             /\ run(ser').nets = ser'.nets
             /\ run(ser').calls = << >>]_vars

C20_Witness ==
    /\ ser.nets = <<[cls |-> "Module", hasRig |-> TRUE, rigIn |-> 2],
                    [cls |-> "Rig", hasRig |-> FALSE, rigIn |-> 0],
                    [cls |-> "Module", hasRig |-> TRUE, rigIn |-> 2]>>
    /\ ser.ret = "None"
    /\ ser.calls = <<<<"addAttr", 1, 1>>, <<"connectAttr", 2, 1>>, <<"connectAttr", 2, 3>>>>

(***************************************************************************)
(* C22.  Within one Rig.build() the child modules are built in list order, *)
(* every scaffolding group (root joint group, master animation group, rig  *)
(* group, geometry group) is created before any constraint is created on   *)
(* the joint root, and every constraint is created before the first        *)
(* display layer.                                                          *)
(***************************************************************************)
GroupEvents == {"create_root_jnt", "create_anm_root", "create_rig_root", "create_geo_root"}
LayerEvents == {"create_layer_anm", "create_layer_rig", "create_layer_geo"}

EventsOf(l, evs) == {i \in 1..Len(l) : l[i].ev \in evs}

\* Every event of the first kind comes before every event of the second.
Before(l, first, second) ==
    \A i \in EventsOf(l, first), j \in EventsOf(l, second) : i < j

\* The children are asked to build one after the other, in list order.
ChildrenInListOrder(l) ==
    LET b == SelectSeq(l, LAMBDA e : e.ev = "build_child")
    IN /\ Len(b) = Len(children.list)
       /\ \A i \in 1..Len(b) : b[i].arg = i

FullBuildDone == lastOp = "build" /\ lastRet = "True"

C22_GroupsConstraintsLayers ==
    FullBuildDone =>
        /\ ChildrenInListOrder(log)
        /\ Before(log, GroupEvents, {"create_constraint"})
        /\ Before(log, {"create_constraint"}, LayerEvents)

\* C22, amended: the children are built in list order; the root joint group
\* and the master animation group are created before the constraint on the
\* joint root, the rig group and the geometry group after it, and all of
\* them before the first display layer.
C22_ConstraintBetweenGroups ==
    FullBuildDone =>
        /\ ChildrenInListOrder(log)
        /\ Before(log, {"build_child"}, {"create_anm_root", "create_constraint"})
        /\ Before(log, {"create_root_jnt"}, {"build_child", "create_anm_root"})
        /\ Before(log, {"create_root_jnt", "create_anm_root"}, {"create_constraint"})
        /\ Before(log, {"create_constraint"}, {"create_rig_root", "create_geo_root"})
        /\ Before(log, {"create_rig_root"}, {"create_geo_root"})
        /\ Before(log, GroupEvents \cup {"create_constraint"}, LayerEvents)
        /\ Cardinality(EventsOf(log, {"create_constraint"})) = 1
        /\ Cardinality(EventsOf(log, LayerEvents)) = 3

C22_Witness ==
    /\ FullBuildDone
    /\ Len(children.list) = 2
    /\ \A ev \in GroupEvents : EventsOf(log, {ev}) # {}
    /\ Cardinality(EventsOf(log, {"build_child"})) = 2

(***************************************************************************)
(* C27.  After any sequence of add_module, build and unbuild calls on a    *)
(* Rig, including unbuild() of a rig that has no modules, the children     *)
(* attribute is still a list, so that a following is_built(), add_module() *)
(* or build() call does not fail on it.                                    *)
(***************************************************************************)
C27_ChildrenStaysList ==
    /\ ~children.none
    /\ IsBuiltNow \in {"True", "False"}
    /\ lastRet \notin {"TypeError", "AttributeError"}

(***************************************************************************)
(* C28.  For a Rig with at least one valid module, build(), unbuild(),     *)
(* build() ends with the last build() returning True and is_built() true,  *)
(* and after it there is exactly one root joint group, one master          *)
(* animation group, one rig group, one geometry group and one display      *)
(* layer of each of the three kinds owned by the rig.                      *)
(***************************************************************************)
OneOfEach(T) == \A t \in T : Cardinality(LiveOfTypes({t})) = 1

RigOwnsScaffold ==
    /\ IsValidPyNode(World, rig.grp_jnts) /\ nodes[rig.grp_jnts].type = "root_jnt"
    /\ NodeIsBuilt(World, rig.grp_anms) /\ nodes[rig.grp_anms.node].type = "anm_root"
    /\ NodeIsBuilt(World, rig.grp_rigs) /\ nodes[rig.grp_rigs.node].type = "rig_root"
    /\ NodeIsBuilt(World, rig.grp_geos) /\ nodes[rig.grp_geos.node].type = "geo_root"
    /\ IsValidPyNode(World, rig.layer_anm) /\ nodes[rig.layer_anm].type = "layer_anm"
    /\ IsValidPyNode(World, rig.layer_rig) /\ nodes[rig.layer_rig].type = "layer_rig"
    /\ IsValidPyNode(World, rig.layer_geo) /\ nodes[rig.layer_geo].type = "layer_geo"

\* What build() then unbuild() of a new rig leave: no display layer, and no
\* scaffolding group but the ones the rig still holds.
TornDown ==
    /\ lastOp = "unbuild" /\ lastRet = "True"
    /\ LiveOfTypes(LayerTypes) = {}
    /\ LiveOfTypes(ScaffoldTypes \cup {"root_jnt"}) \subseteq RigHandles
    /\ Cardinality(LiveOfTypes({"root_jnt"})) = 1

C28_RebuildAfterTeardown ==
    [][(TornDown /\ Build(0, FALSE) /\ ~children.none /\ Len(children.list) > 0)
          => /\ lastRet' = "True"
             /\ IsBuiltNow' = "True"
             /\ OneOfEach(ScaffoldTypes \cup LayerTypes \cup {"root_jnt"})'
             /\ RigOwnsScaffold']_vars

C28_Witness ==
    /\ FullBuildDone
    /\ LogEvents(log, "create_anm_root") # {}
    /\ LogEvents(log, "create_root_jnt") = {}
    /\ LogEvents(log, "create_geo_root") = {}
    /\ LogEvents(log, "fetch_avars") # {}
    /\ RigOwnsScaffold
    /\ OneOfEach(ScaffoldTypes \cup LayerTypes \cup {"root_jnt"})

(***************************************************************************)
(* C29.  With soft-IK off and stretch fully on (inRatio = 0, inStretch =   *)
(* 1), the SoftIkNode agrees with the legacy IK stretch for the same chain *)
(* length L and every control distance D > 0: outStretch = max(1, D/L)     *)
(* and outRatio = 1.                                                       *)
(***************************************************************************)
Max(a, b) == IF a >= b THEN a ELSE b

C29_AgreesWithLegacyStretch ==
    (ik.inRatio = 0 /\ ik.inStretch = One /\ ik.inDistance > 0) =>
        /\ ik.outStretch = attStretch(ik.inDistance, ik.inChainLength)
        /\ ik.outStretch = Max(One, (ik.inDistance * One) \div ik.inChainLength)
        /\ ik.outRatio = One

C29_Witness ==
    /\ ik.inRatio = 0 /\ ik.inStretch = One
    /\ ik.inChainLength = 10 * One /\ ik.inDistance = 12 * One
    /\ ik.outStretch = (12 * One) \div 10
    /\ ik.outRatio = One

(***************************************************************************)
(* The shape library on its own: a cross or a needle is made.              *)
(***************************************************************************)
CreateCross(size) ==
    /\ shape' = [fn |-> "cross", size |-> size, args |-> << >>,
                 curves |-> <<create_shape_cross(size)>>]
    /\ UNCHANGED <<rigFrame, ik, legacy, registry, ser, swivel, surface, mul>>

CreateNeedle(size, length, radius, normal) ==
    /\ shape' = [fn |-> "needle", size |-> size, args |-> <<length, radius, normal>>,
                 curves |-> create_shape_needle(size, length, radius, normal)]
    /\ UNCHANGED <<rigFrame, ik, legacy, registry, ser, swivel, surface, mul>>

NextShapes ==
    \/ \E size \in ShapeSizes : CreateCross(size)
    \/ \E size \in ShapeSizes, length \in NeedleLengths, radius \in NeedleRadii,
          normal \in Normals : CreateNeedle(size, length, radius, normal)

SpecShapes == Init /\ [][NextShapes]_vars

(***************************************************************************)
(* C21.  create_shape_cross(size) gives a 13-point outline whose first and *)
(* last points coincide and whose coordinates all lie in {0, +-size/2,     *)
(* +-size} (for size 4: {0, +-2, +-4}); create_shape_needle(size) with no  *)
(* explicit length or radius uses shaft length 4*size, head radius size/4  *)
(* and mid radius 3/4 of the head radius (for size 2: 8, 0.5 and 0.375).   *)
(***************************************************************************)
Coordinates(curve) == {curve[i][k] : i \in 1..Len(curve), k \in 1..3}

\* The needle as drawn: the height of the head's centre, the radius of the
\* head's circle and the radius at its diagonals.
HeadHeight == shape.curves[2][4][2]
HeadRadius == shape.curves[2][4][1]
HeadMidRadius == shape.curves[2][3][1]

DefaultNeedle ==
    shape.fn = "needle" /\ shape.args = <<NoArg, NoArg, <<0, 1, 0>>>>

BuildSwivel(target, size) ==
    /\ swivel' = CtrlIkSwivelBuild(target, size)
    /\ UNCHANGED <<rigFrame, ik, legacy, registry, ser, shape, surface, mul>>

InitLegacySwivel(target, size) ==
    /\ swivel' = CtrlIkSwivelInit(target, size)
    /\ UNCHANGED <<rigFrame, ik, legacy, registry, ser, shape, surface, mul>>

NextSwivel ==
    \/ \E target \in NodeTargets \cup BoolTargets, size \in CtrlSizes :
          BuildSwivel(target, size)
    \/ \E target \in NodeTargets, size \in CtrlSizes : InitLegacySwivel(target, size)

SpecSwivel == Init /\ [][NextSwivel]_vars

(***************************************************************************)
(* C23.  When the current-generation CtrlIkSwivel.build() is given a line  *)
(* target node, it creates an aim-line annotation whose transform is       *)
(* parented under the control's own offset and point-constrained to that   *)
(* target; when no target is given, no annotation is created.              *)
(***************************************************************************)
C23_LineToTargetNode ==
    swivel.gen = "current" =>
        /\ swivel.target.kind = "node" =>
              /\ swivel.ret = "node"
              /\ swivel.line.made
              /\ swivel.line.parent = "offset"
              /\ swivel.line.constrainedTo = swivel.target
        /\ swivel.target = NoTarget => ~swivel.line.made

(***************************************************************************)
(* create_surface on its own: it is called on a module of 0 to             *)
(* MaxSurfaceJnts joints.                                                  *)
(***************************************************************************)
CreateSurface(jnts) ==
    /\ surface' = create_surface(jnts)
    /\ UNCHANGED <<rigFrame, ik, legacy, registry, ser, shape, swivel, mul>>

NextSurface == \E jnts \in JointLists : CreateSurface(jnts)

SpecSurface == Init /\ [][NextSurface]_vars

(***************************************************************************)
(* C26.  create_surface() scales the wrapper group to the X-extent of the  *)
(* driven joints: X scale = (largest world X among the joints) - (smallest *)
(* world X among the joints), Y scale = half the X scale; it falls back to *)
(* default_scale, without raising, when that extent is below epsilon or    *)
(* when the module has fewer than 2 joints (including none).               *)
(***************************************************************************)
JointsOf(sf) == {sf.jnts[i] : i \in 1..Len(sf.jnts)}

XExtent(sf) == SetMax(JointsOf(sf)) - SetMin(JointsOf(sf))

C26_ScaledToJointExtent ==
    surface # NoSurface =>
        /\ surface.ret # "Exception"
        /\ surface.scaleX =
              (IF Len(surface.jnts) < 2 \/ XExtent(surface) < epsilon
               THEN default_scale ELSE XExtent(surface))
        /\ 2 * surface.scaleY = surface.scaleX

(***************************************************************************)
(* The multipliers on their own: the module is built and unbuilt (also     *)
(* twice in a row), and on the built rig a rigger sets a multiplier or     *)
(* deletes its attribute.                                                  *)
(***************************************************************************)
FollicleBuild ==
    /\ ~mul.built
    /\ mul' = AvarFollicleBuild(mul)
    /\ UNCHANGED <<rigFrame, ik, legacy, registry, ser, shape, swivel, surface>>

FollicleUnbuild ==
    /\ mul' = AvarFollicleUnbuild(mul)
    /\ UNCHANGED <<rigFrame, ik, legacy, registry, ser, shape, swivel, surface>>

SetMultiplier(k, x) ==
    /\ mul.attr[k].exists
    /\ mul' = [mul EXCEPT !.attr[k].value = x]
    /\ UNCHANGED <<rigFrame, ik, legacy, registry, ser, shape, swivel, surface>>

DeleteMultiplier(k) ==
    /\ mul.attr[k].exists
    /\ mul' = [mul EXCEPT !.attr[k] = NoAttribute]
    /\ UNCHANGED <<rigFrame, ik, legacy, registry, ser, shape, swivel, surface>>

NextMul ==
    \/ FollicleBuild
    \/ FollicleUnbuild
    \/ \E k \in Coefficients, x \in MultiplierValues : SetMultiplier(k, x)
    \/ \E k \in Coefficients : DeleteMultiplier(k)

SpecMul == Init /\ [][NextMul]_vars

(***************************************************************************)
(* C25.  The three AvarFollicle multiplier coefficients survive a rebuild: *)
(* a value x set on multiplierLr, multiplierUd or multiplierFb of the      *)
(* built rig is the value of the recreated attribute after unbuild() then  *)
(* build(); a coefficient whose attribute no longer exists at unbuild      *)
(* keeps its previous stored value (0.25, 0.25 and 0.10 initially).        *)
(***************************************************************************)
C25_MultipliersSurviveRebuild ==
    [][/\ FollicleUnbuild =>
            \A k \in Coefficients :
                mul'.multiplier[k] =
                    (IF mul.attr[k].exists THEN mul.attr[k].value
                     ELSE mul.multiplier[k])
       /\ FollicleBuild =>
            \A k \in Coefficients :
                /\ mul'.attr[k].exists
                /\ mul'.attr[k].value = mul.multiplier[k]
                /\ mul'.multiplier[k] = mul.multiplier[k]
       /\ (FollicleBuild /\ \A k \in Coefficients : ~mul.handle[k]) =>
            /\ mul'.attr["lr"].value = One \div 4
            /\ mul'.attr["ud"].value = One \div 4
            /\ mul'.attr["fb"].value = One \div 10]_vars

C25_Witness ==
    /\ mul.built
    /\ mul.multiplier = [lr |-> One \div 2, ud |-> One \div 4, fb |-> One \div 10]
    /\ mul.attr["lr"] = [exists |-> TRUE, value |-> One \div 2]
    /\ mul.attr["ud"] = [exists |-> TRUE, value |-> One \div 4]

(***************************************************************************)
(* C24.  AvarSimple.unbuild() is best-effort about its controller model:   *)
(* when model_ctrl.unbuild() raises, the failure is logged as a warning,   *)
(* no exception leaves unbuild(), and the rest of the unbuild still runs:  *)
(* the avars are held on the backup node, the 9 avar handles are reset and *)
(* the base module unbuild is called.                                      *)
(***************************************************************************)
C24_CtrlModelFailureTolerated ==
    [][AvarUnbuild(TRUE) =>
          /\ lastRet' = "None"
          /\ LogEvents(log', "warning") # {}
          /\ ~mods'[TheAvar].attr_set
          /\ ~ModuleIsBuilt(World, TheAvar)'
          /\ mods'[TheAvar].grp_rig = NoneVal /\ mods'[TheAvar].grp_anm = NoneVal
          /\ IsValidPyNode(World, mods[TheAvar].grp_rig) =>
                /\ IsValidPyNode(World, mods[TheAvar].avar_network)'
                /\ nodes'[mods'[TheAvar].avar_network].type = "avarBackup"
                /\ \A name \in ProbedAvars :
                      HasAttr(World, mods[TheAvar].avar_network, name)'
                /\ ExternalAvarConns' = ExternalAvarConns]_vars

C24_Witness ==
    /\ lastOp = "avar_unbuild" /\ lastRet = "None"
    /\ LogEvents(log, "warning") # {}
    /\ IsValidPyNode(World, mods[TheAvar].avar_network)
    /\ ExternalAvarConns # {}
    /\ ~ModuleIsBuilt(World, TheAvar)

(***************************************************************************)
(* C30.  For one avar module, after any sequence of build() and unbuild()  *)
(* calls (two unbuild() in a row and an unbuild() while the rig group is   *)
(* missing included), at most one avar backup node of the module exists;   *)
(* it exists only between an unbuild and the next build, and after every   *)
(* completed build() the avar_network handle is absent and no backup node  *)
(* of the module remains.                                                  *)
(***************************************************************************)
Backups == NodesOfType(World, "avarBackup")

C30_AtMostOneBackup ==
    /\ Cardinality(Backups) <= 1
    /\ Backups # {} => /\ lastOp = "avar_unbuild"
                       /\ Backups = {mods[TheAvar].avar_network}
    /\ lastOp = "avar_build" => /\ mods[TheAvar].avar_network = NoneVal
                                /\ Backups = {}

C30_Witness ==
    /\ lastOp = "avar_build"
    /\ \E i \in LogEvents(log, "fetch_avars") : log[i].arg > 0
    /\ mods[TheAvar].avar_network = NoneVal
    /\ Backups = {}
    /\ ExternalAvarConns # {}
====
